---- MODULE Spec2Model ----
(***************************************************************************)
(* Model of the OPGL gateway: the rate-limit middlewares, the three        *)
(* handlers (summoner, matches, analyze), the service proxy, the request   *)
(* validators and the error taxonomy.  One client request is followed from *)
(* its arrival at the router to its response; the server then takes the    *)
(* next request.                                                           *)
(***************************************************************************)
EXTENDS Integers, Sequences, FiniteSets, TLC

VARIABLES
    pc,        \* position of the request: idle, mw, auth, handler, wait, done, hung
    req,       \* route, gate (middleware on the route), X-API-Key header, proxy implementation
    body,      \* the request body as the client sent it (read by the handler's Decode)
    authResp,  \* what the authority answered to this request's quota check
    rateLimitResult, \* what CheckRateLimit returned to the middleware (decision, error)
    now,       \* what time.Now().Unix() returned, where this request read the clock
    hdrs,      \* response headers set so far (header name -> value)
    resp,      \* the response written to the client
    calls,     \* proxy operations invoked for this request, in order, with their arguments
    rets,      \* what each finished proxy operation returned (value, error)
    wire,      \* the backend's answer to each finished proxy operation
    invoked,   \* how many times the wrapped handler was invoked for this request
    authCalls, \* how many quota checks were sent to the authority for this request
    keyedRequests,  \* requests with an X-API-Key that reached a rate-limit middleware so far
    authorityCalls, \* quota checks sent to the authority so far, over all requests
    validateInput,  \* the request handed to a validator (validation package, run on its own)
    validateFunc,   \* the Validate*Request function that was run on it, "" before
    validationResult, \* the ValidationResult it returned: the sequence of its errors
    errorMessages,  \* what GetErrorMessages returned for that result, once called
    apiError,       \* the APIError handed to WriteError (errors package, run on its own)
    responseRecorder, \* what WriteError wrote: status code, headers, body text
    errorResponse,  \* the ErrorResponse decoded from that body
    inflight,       \* requests handled at the same time: each goroutine's local state
    started,        \* the goroutines in the order their handlers began
    logRequest,     \* LoggingMiddleware run on its own: the method and what the wrapped handler does
    wrappedWriter,  \* its responseWriter: the server's ResponseWriter and the captured status
    served,         \* how many of the wrapped handler's operations were performed
    logEvents,      \* the log events written
    authRequest,    \* the auth middlewares run on their own: policy and Authorization header
    authPc,         \* where the auth middleware is
    authTrace       \* tokens posted, errors written, calls of the wrapped handler

\* The gateway's request handling, and the validation package, which the
\* gateway's handlers do not call.
gateway == <<pc, req, body, authResp, rateLimitResult, now, hdrs, resp, calls, rets, wire,
             invoked, authCalls, keyedRequests, authorityCalls>>
validation == <<validateInput, validateFunc, validationResult, errorMessages>>

envelope == <<apiError, responseRecorder, errorResponse>>

\* The packages exercised on their own, which a request to the gateway
\* leaves alone.
concurrent == <<inflight, started>>
logging == <<logRequest, wrappedWriter, served, logEvents>>
auth == <<authRequest, authPc, authTrace>>
packages == <<validation, envelope, concurrent, logging, auth>>

\* What each package's own steps leave alone.
outsideValidation == <<gateway, envelope, concurrent, logging, auth>>
outsideErrors == <<gateway, validation, concurrent, logging, auth>>
outsideConcurrent == <<gateway, validation, envelope, logging, auth>>
outsideLogging == <<gateway, validation, envelope, concurrent, auth>>
outsideAuth == <<gateway, validation, envelope, concurrent, logging>>

vars == <<gateway, packages>>

-----------------------------------------------------------------------------
(* Bounds of the model                                                     *)

MaxTime == 2        \* the clock ranges over 0..MaxTime, reset values over -1..MaxTime
MaxLimit == 1       \* the authority's limit ranges over -1..MaxLimit, remaining over 0..MaxLimit
MaxMatches == 1     \* a match list holds 0..MaxMatches matches
MaxRequests == 2    \* requests with an X-API-Key followed through a rate-limit middleware

Times == 0 .. MaxTime
ResetTimes == -1 .. MaxTime

-----------------------------------------------------------------------------
(* strconv.Itoa / strconv.FormatInt(_, 10)                                 *)

DigitChar(d) ==
    CASE d = 0 -> "0" [] d = 1 -> "1" [] d = 2 -> "2" [] d = 3 -> "3" [] d = 4 -> "4"
      [] d = 5 -> "5" [] d = 6 -> "6" [] d = 7 -> "7" [] d = 8 -> "8" [] d = 9 -> "9"

RECURSIVE Digits(_)
Digits(n) == IF n < 10 THEN DigitChar(n) ELSE Digits(n \div 10) \o DigitChar(n % 10)

FormatInt(n) == IF n < 0 THEN "-" \o Digits(-n) ELSE Digits(n)

Itoa(n) == FormatInt(n)

-----------------------------------------------------------------------------
(* Error taxonomy (internal/errors): an APIError is code, message, status  *)

StatusOK == 200
StatusBadRequest == 400
StatusUnauthorized == 401
StatusNotFound == 404
StatusTooManyRequests == 429
StatusInternalServerError == 500
StatusBadGateway == 502

NewAPIError(code, message, status) ==
    [code |-> code, message |-> message, status |-> status]

ErrCodeMissingAPIKey == "MISSING_API_KEY"
ErrCodeInvalidAPIKey == "INVALID_API_KEY"
ErrCodeRateLimitExceeded == "RATE_LIMIT_EXCEEDED"

InvalidRequestBody(message) == NewAPIError("INVALID_REQUEST_BODY", message, StatusBadRequest)
MissingFields(message) == NewAPIError("MISSING_FIELDS", message, StatusBadRequest)
PlayerNotFound(gameName, tagLine) ==
    NewAPIError("PLAYER_NOT_FOUND", "Player not found: " \o gameName \o "#" \o tagLine,
                StatusNotFound)
MatchesNotFound(message) == NewAPIError("MATCHES_NOT_FOUND", message, StatusNotFound)
DataServiceError(message) == NewAPIError("DATA_SERVICE_ERROR", message, StatusBadGateway)
CortexServiceError(message) == NewAPIError("CORTEX_SERVICE_ERROR", message, StatusBadGateway)
InternalError(message) == NewAPIError("INTERNAL_ERROR", message, StatusInternalServerError)

\* The response before anything was written, and the two shapes a response takes.
NoResponse == [kind |-> "none"]

\* WriteError: status from the error, Content-Type application/json,
\* body {"error": {"code", "message"}}.
\* Faulty variant of WriteError: the Content-Type header is set after the
\* status was written, so the client gets the sniffed type.
WriteErrorHeaderAfterStatus(apiErr) ==
    [kind |-> "error", status |-> apiErr.status, ctype |-> "text/plain; charset=utf-8",
     error |-> [code |-> apiErr.code, message |-> apiErr.message]]

WriteError(apiErr) ==
    [kind |-> "error", status |-> apiErr.status, ctype |-> "application/json",
     error |-> [code |-> apiErr.code, message |-> apiErr.message]]

\* writer.Header().Set("Content-Type", ...); json.NewEncoder(writer).Encode(v)
WriteJSON(value) ==
    [kind |-> "json", status |-> StatusOK, ctype |-> "application/json", value |-> value]

-----------------------------------------------------------------------------
(* Response headers: http.Header with Set                                  *)

NoHeaders == [h \in {} |-> ""]

SetHeader(h, name, value) ==
    [x \in (DOMAIN h) \cup {name} |-> IF x = name THEN value ELSE h[x]]

-----------------------------------------------------------------------------
(* Outbound calls: http.Client.Post under the client's Timeout             *)

\* Client timeouts in seconds; 0 is http.Client's zero value: no timeout.
ProxyTimeout == 0
RateLimitTimeout == 5

\* What Post returns given what the peer does.  A peer that never answers
\* ("silent") ends as an error when the timeout fires, and blocks the caller
\* for ever when the client has no timeout.
Post(timeout, answer) ==
    IF answer.kind = "silent"
    THEN IF timeout > 0 THEN [kind |-> "transport"] ELSE [kind |-> "blocked"]
    ELSE answer

\* The result of an operation whose Post never returns.
Blocked == [blocked |-> TRUE]
Blocks(result) == "blocked" \in DOMAIN result

-----------------------------------------------------------------------------
(* Rate limit client and middlewares (middleware/ratelimit.go)             *)

\* What the authority can do with POST /api/v1/ratelimit/check: fail the
\* connection (transport failure), never answer (silent), or answer a status
\* with a body that either decodes as {allowed, limit, remaining, reset} or
\* does not decode.
Decisions ==
    [allowed : BOOLEAN, limit : -1 .. MaxLimit, remaining : 0 .. MaxLimit, reset : ResetTimes]

AuthResponses ==
    {[kind |-> "transport"], [kind |-> "silent"]}
      \cup {[kind |-> "http", status |-> st, json |-> FALSE] :
               st \in {StatusOK, StatusUnauthorized, StatusInternalServerError}}
      \cup {[kind |-> "http", status |-> StatusOK, json |-> TRUE, decision |-> d] :
               d \in Decisions}

NoAuthResponse == [kind |-> "none"]
NoResult == [err |-> FALSE, called |-> FALSE]
NoTime == [read |-> FALSE]
ClockRead(t) == [read |-> TRUE, unix |-> t]

\* Faulty variant of CheckRateLimit: a transport failure is answered as an
\* open decision instead of an error (fail open).
CheckRateLimitFailOpen(a, clk) ==
    LET response == Post(RateLimitTimeout, a)
    IN IF response.kind = "blocked" THEN Blocked
       ELSE IF response.kind = "transport"
       THEN [err |-> FALSE,
             result |-> [allowed |-> TRUE, limit |-> 1, remaining |-> 1, reset |-> clk]]
       ELSE IF response.status # StatusOK
            THEN [err |-> FALSE,
                  result |-> [allowed |-> FALSE, limit |-> 0, remaining |-> 0, reset |-> clk]]
       ELSE IF ~response.json THEN [err |-> TRUE]
       ELSE [err |-> FALSE, result |-> response.decision]

\* Faulty variant of CheckRateLimit: a status other than 200 is returned as an
\* error instead of the invalid-key decision.
CheckRateLimitStatusIsError(a, clk) ==
    LET response == Post(RateLimitTimeout, a)
    IN IF response.kind = "blocked" THEN Blocked
       ELSE IF response.kind = "transport" THEN [err |-> TRUE]
       ELSE IF response.status # StatusOK THEN [err |-> TRUE]
       ELSE IF ~response.json THEN [err |-> TRUE]
       ELSE [err |-> FALSE, result |-> response.decision]

\* CheckRateLimit(apiKey): the decision, or an error.  clk is time.Now().Unix().
\* Faulty variant of CheckRateLimit: a 200 answer that does not decode is
\* taken for the zero decision, like an answer with another status.
CheckRateLimitDecodeErrorIsZero(a, clk) ==
    LET response == Post(RateLimitTimeout, a)
    IN IF response.kind = "blocked" THEN Blocked
       ELSE IF response.kind = "transport" THEN [err |-> TRUE]
       ELSE IF response.status # StatusOK \/ ~response.json
            THEN [err |-> FALSE,
                  result |-> [allowed |-> FALSE, limit |-> 0, remaining |-> 0, reset |-> clk]]
       ELSE [err |-> FALSE, result |-> response.decision]

CheckRateLimit(a, clk) ==
    LET response == Post(RateLimitTimeout, a)
    IN IF response.kind = "blocked" THEN Blocked
       ELSE IF response.kind = "transport" THEN [err |-> TRUE]
       ELSE IF response.status # StatusOK
            THEN [err |-> FALSE,
                  result |-> [allowed |-> FALSE, limit |-> 0, remaining |-> 0, reset |-> clk]]
       ELSE IF ~response.json THEN [err |-> TRUE]
       ELSE [err |-> FALSE, result |-> response.decision]

\* The three X-RateLimit-* headers set from the decision.
RateLimitHeaders(h, r) ==
    SetHeader(SetHeader(SetHeader(h,
        "X-RateLimit-Limit", Itoa(r.limit)),
        "X-RateLimit-Remaining", Itoa(r.remaining)),
        "X-RateLimit-Reset", FormatInt(r.reset))

\* retryAfter := Reset - time.Now().Unix(); if retryAfter < 0 { retryAfter = 1 }
RetryAfter(reset, clk) ==
    LET retryAfter == reset - clk IN IF retryAfter < 0 THEN 1 ELSE retryAfter

\* Outcome of a middleware: the headers it leaves set, the error it wrote (if
\* any) and whether it called next.ServeHTTP.
\* Faulty variant of Reject: the return after WriteError is missing, so the
\* next handler runs on a request that was already answered.
RejectWithoutReturn(h, apiErr) == [hdrs |-> h, written |-> TRUE, error |-> apiErr, next |-> TRUE]

\* WriteError(writer, apiErr); return
Reject(h, apiErr) == [hdrs |-> h, written |-> TRUE, error |-> apiErr, next |-> FALSE]
Admit(h) == [hdrs |-> h, written |-> FALSE, next |-> TRUE]

\* Faulty variant of RateLimitNoKey: a request without a key is passed through.
RateLimitNoKeyAdmits(h) == Admit(h)

\* RateLimitMiddleware, the branch without an X-API-Key header.
RateLimitNoKey(h) ==
    Reject(h, NewAPIError(ErrCodeMissingAPIKey,
                          "API key is required. Include X-API-Key header in your request.",
                          StatusUnauthorized))

\* Faulty variant of RateLimitChecked: the quota check is dropped, so a key
\* over its quota is admitted.
RateLimitCheckedNoQuota(h, c, clk) ==
    IF c.err THEN Reject(h, InternalError("Rate limit check failed"))
    ELSE LET r == c.result
             h1 == RateLimitHeaders(h, r)
         IN IF r.limit = 0
            THEN Reject(h1, NewAPIError(ErrCodeInvalidAPIKey, "Invalid or inactive API key.",
                                        StatusUnauthorized))
            ELSE Admit(h1)

\* Faulty variant of RateLimitChecked: the X-RateLimit-* headers are set on the
\* admitted branch only.
RateLimitCheckedHeadersOnAdmit(h, c, clk) ==
    IF c.err THEN Reject(h, InternalError("Rate limit check failed"))
    ELSE LET r == c.result
         IN IF r.limit = 0
            THEN Reject(h, NewAPIError(ErrCodeInvalidAPIKey, "Invalid or inactive API key.",
                                       StatusUnauthorized))
            ELSE IF ~r.allowed
            THEN LET retryAfter == RetryAfter(r.reset, clk)
                 IN Reject(SetHeader(h, "Retry-After", FormatInt(retryAfter)),
                           NewAPIError(ErrCodeRateLimitExceeded,
                                       "Rate limit exceeded. Try again in "
                                          \o FormatInt(retryAfter) \o " seconds.",
                                       StatusTooManyRequests))
            ELSE Admit(RateLimitHeaders(h, r))

\* RateLimitMiddleware after CheckRateLimit returned c; clk is time.Now().Unix().
RateLimitChecked(h, c, clk) ==
    IF c.err THEN Reject(h, InternalError("Rate limit check failed"))
    ELSE LET r == c.result
             h1 == RateLimitHeaders(h, r)
         IN IF r.limit = 0
            THEN Reject(h1, NewAPIError(ErrCodeInvalidAPIKey, "Invalid or inactive API key.",
                                        StatusUnauthorized))
            ELSE IF ~r.allowed
            THEN LET retryAfter == RetryAfter(r.reset, clk)
                 IN Reject(SetHeader(h1, "Retry-After", FormatInt(retryAfter)),
                           NewAPIError(ErrCodeRateLimitExceeded,
                                       "Rate limit exceeded. Try again in "
                                          \o FormatInt(retryAfter) \o " seconds.",
                                       StatusTooManyRequests))
            ELSE Admit(h1)

\* OptionalRateLimitMiddleware, the branch without an X-API-Key header.
OptionalRateLimitNoKey(h) == Admit(h)

\* Faulty variant of OptionalRateLimitChecked: a zero limit is rejected as
\* invalid only when the decision is also not allowed.
OptionalRateLimitCheckedTrustAllowed(h, c, clk) ==
    IF c.err THEN Reject(h, InternalError("Rate limit check failed"))
    ELSE LET r == c.result
             h1 == RateLimitHeaders(h, r)
         IN IF r.limit = 0 /\ ~r.allowed
            THEN Reject(h1, NewAPIError(ErrCodeInvalidAPIKey, "Invalid or inactive API key.",
                                        StatusUnauthorized))
            ELSE IF ~r.allowed
            THEN Reject(SetHeader(h1, "Retry-After", FormatInt(r.reset)),
                        NewAPIError(ErrCodeRateLimitExceeded, "Rate limit exceeded.",
                                    StatusTooManyRequests))
            ELSE Admit(h1)

\* OptionalRateLimitMiddleware after CheckRateLimit returned c.
OptionalRateLimitChecked(h, c, clk) ==
    IF c.err THEN Reject(h, InternalError("Rate limit check failed"))
    ELSE LET r == c.result
             h1 == RateLimitHeaders(h, r)
         IN IF r.limit = 0
            THEN Reject(h1, NewAPIError(ErrCodeInvalidAPIKey, "Invalid or inactive API key.",
                                        StatusUnauthorized))
            ELSE IF ~r.allowed
            THEN Reject(SetHeader(h1, "Retry-After", FormatInt(r.reset)),
                        NewAPIError(ErrCodeRateLimitExceeded, "Rate limit exceeded.",
                                    StatusTooManyRequests))
            ELSE Admit(h1)

\* Whether the request read the clock: CheckRateLimit on a non-200 answer,
\* RateLimitMiddleware on the rate-limited branch.
ReadsClock(gate, a, c) ==
    \/ a.kind = "http" /\ a.status # StatusOK
    \/ gate = "hard" /\ ~c.err /\ c.result.limit # 0 /\ ~c.result.allowed

-----------------------------------------------------------------------------
(* Service proxy (proxy/proxy.go)                                          *)

\* A proxy operation returns (value, error); the error is nil, an *APIError
\* or, with a substitute implementation of ServiceProxyInterface, any other
\* error value.
NilErr == [type |-> "nil"]
APIErr(e) == [type |-> "APIError", apiErr |-> e]
OtherErr == [type |-> "other"]

Success(v) == [err |-> NilErr, val |-> v]
Failure(e) == [err |-> e]

\* Bodies a backend can send: text that is no JSON, a JSON object (decodes
\* into a struct; an absent "puuid" leaves the field empty), a JSON array of
\* matches.
PUUIDs == {"", "puuid-1", "puuid-2"}

RECURSIVE MatchList(_)
MatchList(n) == IF n = 0 THEN << >> ELSE Append(MatchList(n - 1), "match-" \o Itoa(n))

BackendBodies ==
    {[shape |-> "text"]}
      \cup {[shape |-> "object", puuid |-> p] : p \in PUUIDs}
      \cup {[shape |-> "array", items |-> MatchList(n)] : n \in 0 .. MaxMatches}

\* string(body) of io.ReadAll(response.Body)
BodyText(b) ==
    CASE b.shape = "text" -> "oops"
      [] b.shape = "object" -> "{\"puuid\":\"" \o b.puuid \o "\"}"
      [] b.shape = "array" -> "[" \o Itoa(Len(b.items)) \o "]"

\* What a backend can do: fail the connection (transport failure), never
\* answer (silent), or answer a status and a body; only a 200 answer's body
\* is decoded.
BackendResponses ==
    {[kind |-> "transport"], [kind |-> "silent"]}
      \cup {[kind |-> "http", status |-> st, body |-> [shape |-> "text"]] :
               st \in {201, StatusBadRequest, StatusNotFound, StatusInternalServerError}}
      \cup {[kind |-> "http", status |-> StatusOK, body |-> b] : b \in BackendBodies}

\* json.NewDecoder(response.Body).Decode(&summoner)
DecodeSummoner(b) ==
    IF b.shape = "object" THEN [err |-> FALSE, val |-> [puuid |-> b.puuid]] ELSE [err |-> TRUE]

\* json.NewDecoder(response.Body).Decode(&matches)
DecodeMatches(b) ==
    IF b.shape = "array" THEN [err |-> FALSE, val |-> b.items] ELSE [err |-> TRUE]

\* json.NewDecoder(response.Body).Decode(&analysisResult)
DecodeAnalysis(b) ==
    IF b.shape = "object" THEN [err |-> FALSE, val |-> [analysis |-> BodyText(b)]]
    ELSE [err |-> TRUE]

\* Faulty variant of handleDataServiceError: a 404 is reported as the PUUID
\* lookup reports it.
handleDataServiceErrorAsByPUUID(response, gameName, tagLine) ==
    CASE response.status = StatusNotFound -> MatchesNotFound("No matches found for this player")
      [] response.status = StatusBadRequest -> InvalidRequestBody(BodyText(response.body))
      [] OTHER -> DataServiceError("Data service error: " \o BodyText(response.body))

handleDataServiceError(response, gameName, tagLine) ==
    CASE response.status = StatusNotFound -> PlayerNotFound(gameName, tagLine)
      [] response.status = StatusBadRequest -> InvalidRequestBody(BodyText(response.body))
      [] OTHER -> DataServiceError("Data service error: " \o BodyText(response.body))

\* Faulty variant of handleDataServiceErrorByPUUID: a 404 is reported as the
\* name lookup reports it, with no name to report.
handleDataServiceErrorByPUUIDAsRiotID(response) ==
    CASE response.status = StatusNotFound -> PlayerNotFound("", "")
      [] response.status = StatusBadRequest -> InvalidRequestBody(BodyText(response.body))
      [] OTHER -> DataServiceError("Data service error: " \o BodyText(response.body))

handleDataServiceErrorByPUUID(response) ==
    CASE response.status = StatusNotFound -> MatchesNotFound("No matches found for this player")
      [] response.status = StatusBadRequest -> InvalidRequestBody(BodyText(response.body))
      [] OTHER -> DataServiceError("Data service error: " \o BodyText(response.body))

\* Faulty variant of handleCortexServiceError: the default branch reports the
\* data service's error kind.
handleCortexServiceErrorAsData(response) ==
    CASE response.status = StatusBadRequest -> InvalidRequestBody(BodyText(response.body))
      [] OTHER -> DataServiceError("Data service error: " \o BodyText(response.body))

handleCortexServiceError(response) ==
    CASE response.status = StatusBadRequest -> InvalidRequestBody(BodyText(response.body))
      [] OTHER -> CortexServiceError("Analysis service error: " \o BodyText(response.body))

\* Each operation is given what the backend does with its one POST.
\* Faulty variant of GetSummonerByRiotID: the decoder's error is returned as
\* it is.
GetSummonerByRiotIDRawDecodeError(region, gameName, tagLine, answer) ==
    LET response == Post(ProxyTimeout, answer)
    IN IF response.kind = "blocked" THEN Blocked
       ELSE IF response.kind = "transport"
       THEN Failure(APIErr(DataServiceError("Unable to connect to data service")))
       ELSE IF response.status # StatusOK
       THEN Failure(APIErr(handleDataServiceError(response, gameName, tagLine)))
       ELSE LET d == DecodeSummoner(response.body)
            IN IF d.err THEN Failure(OtherErr) ELSE Success(d.val)

GetSummonerByRiotID(region, gameName, tagLine, answer) ==
    LET response == Post(ProxyTimeout, answer)
    IN IF response.kind = "blocked" THEN Blocked
       ELSE IF response.kind = "transport"
       THEN Failure(APIErr(DataServiceError("Unable to connect to data service")))
       ELSE IF response.status # StatusOK
       THEN Failure(APIErr(handleDataServiceError(response, gameName, tagLine)))
       ELSE LET d == DecodeSummoner(response.body)
            IN IF d.err THEN Failure(APIErr(InternalError("Failed to process summoner data")))
               ELSE Success(d.val)

GetMatchesByRiotID(region, gameName, tagLine, count, answer) ==
    LET response == Post(ProxyTimeout, answer)
    IN IF response.kind = "blocked" THEN Blocked
       ELSE IF response.kind = "transport"
       THEN Failure(APIErr(DataServiceError("Unable to connect to data service")))
       ELSE IF response.status # StatusOK
       THEN Failure(APIErr(handleDataServiceError(response, gameName, tagLine)))
       ELSE LET d == DecodeMatches(response.body)
            IN IF d.err THEN Failure(APIErr(InternalError("Failed to process match data")))
               ELSE Success(d.val)

GetMatchesByPUUID(region, puuid, count, answer) ==
    LET response == Post(ProxyTimeout, answer)
    IN IF response.kind = "blocked" THEN Blocked
       ELSE IF response.kind = "transport"
       THEN Failure(APIErr(DataServiceError("Unable to connect to data service")))
       ELSE IF response.status # StatusOK
       THEN Failure(APIErr(handleDataServiceErrorByPUUID(response)))
       ELSE LET d == DecodeMatches(response.body)
            IN IF d.err THEN Failure(APIErr(InternalError("Failed to process match data")))
               ELSE Success(d.val)

AnalyzePlayer(summoner, matches, answer) ==
    LET response == Post(ProxyTimeout, answer)
    IN IF response.kind = "blocked" THEN Blocked
       ELSE IF response.kind = "transport"
       THEN Failure(APIErr(CortexServiceError("Unable to connect to analysis service")))
       ELSE IF response.status # StatusOK
       THEN Failure(APIErr(handleCortexServiceError(response)))
       ELSE LET d == DecodeAnalysis(response.body)
            IN IF d.err THEN Failure(APIErr(InternalError("Failed to process analysis data")))
               ELSE Success(d.val)

\* A proxy invocation as the handler makes it: operation and arguments.
SummonerCall(region, gameName, tagLine) ==
    [op |-> "GetSummonerByRiotID", region |-> region, gameName |-> gameName,
     tagLine |-> tagLine]
MatchesByRiotIDCall(region, gameName, tagLine, count) ==
    [op |-> "GetMatchesByRiotID", region |-> region, gameName |-> gameName,
     tagLine |-> tagLine, count |-> count]
MatchesByPUUIDCall(region, puuid, count) ==
    [op |-> "GetMatchesByPUUID", region |-> region, puuid |-> puuid, count |-> count]
AnalyzeCall(summoner, matches) ==
    [op |-> "AnalyzePlayer", summoner |-> summoner, matches |-> matches]

\* The live ServiceProxy: the call's result given the backend's answer.
LiveResult(call, response) ==
    CASE call.op = "GetSummonerByRiotID" ->
           GetSummonerByRiotID(call.region, call.gameName, call.tagLine, response)
      [] call.op = "GetMatchesByRiotID" ->
           GetMatchesByRiotID(call.region, call.gameName, call.tagLine, call.count, response)
      [] call.op = "GetMatchesByPUUID" ->
           GetMatchesByPUUID(call.region, call.puuid, call.count, response)
      [] call.op = "AnalyzePlayer" ->
           AnalyzePlayer(call.summoner, call.matches, response)

\* A substitute implementation (test double) may return any value or error.
StubErrors ==
    {OtherErr}
      \cup {APIErr(e) : e \in
              {InvalidRequestBody("stub"), MissingFields("stub"), PlayerNotFound("stub", "stub"),
               MatchesNotFound("stub"), DataServiceError("stub"), CortexServiceError("stub"),
               InternalError("stub"),
               NewAPIError(ErrCodeRateLimitExceeded, "stub", StatusTooManyRequests)}}

StubValues(op) ==
    CASE op = "GetSummonerByRiotID" -> {[puuid |-> p] : p \in PUUIDs}
      [] op \in {"GetMatchesByRiotID", "GetMatchesByPUUID"} ->
           {MatchList(n) : n \in 0 .. MaxMatches}
      [] op = "AnalyzePlayer" -> {[analysis |-> "stub"]}

StubResults(op) == {Failure(e) : e \in StubErrors} \cup {Success(v) : v \in StubValues(op)}

\* The pairs (backend answer, result) a call can end with under implementation impl.
Outcomes(impl, call) ==
    IF impl = "live"
    THEN {[wire |-> b, result |-> LiveResult(call, b)] : b \in BackendResponses}
    ELSE {[wire |-> [kind |-> "stub"], result |-> r] : r \in StubResults(call.op)}

-----------------------------------------------------------------------------
(* Request validation (validation/validation.go)                           *)

\* A Go string as the sequence of its characters, for the strings a request
\* of the model can hold.
Chars(s) ==
    CASE s = "" -> << >>
      [] s = "na" -> <<"n", "a">>
      [] s = "NA" -> <<"N", "A">>
      [] s = "xx" -> <<"x", "x">>
      [] s = "Ann" -> <<"A", "n", "n">>
      [] s = "NA1" -> <<"N", "A", "1">>
      [] s = "puuid-9" -> <<"p", "u", "u", "i", "d", "-", "9">>
      [] s = "Na" -> <<"N", "a">>
      [] s = "ab" -> <<"a", "b">>
      [] s = "a!c" -> <<"a", "!", "c">>
      [] s = "A b_1" -> <<"A", " ", "b", "_", "1">>
      [] s = "abcdefghijklmnop" ->
          <<
            "a", "b", "c", "d", "e", "f", "g", "h", "i", "j", "k", "l", "m",
            "n", "o", "p"
          >>
      [] s = "abcdefghijklmnopq" ->
          <<
            "a", "b", "c", "d", "e", "f", "g", "h", "i", "j", "k", "l", "m",
            "n", "o", "p", "q"
          >>
      [] s = "T1" -> <<"T", "1">>
      [] s = "abcde" -> <<"a", "b", "c", "d", "e">>
      [] s = "TOOLNG" -> <<"T", "O", "O", "L", "N", "G">>
      [] s = "NA-1" -> <<"N", "A", "-", "1">>
      [] s = "error" -> <<"e", "r", "r", "o", "r">>
      [] s = "code" -> <<"c", "o", "d", "e">>
      [] s = "message" -> <<"m", "e", "s", "s", "a", "g", "e">>
      [] s = "INVALID_REQUEST_BODY" ->
          <<
            "I", "N", "V", "A", "L", "I", "D", "_", "R", "E", "Q", "U", "E",
            "S", "T", "_", "B", "O", "D", "Y"
          >>
      [] s = "MISSING_FIELDS" ->
          <<
            "M", "I", "S", "S", "I", "N", "G", "_", "F", "I", "E", "L", "D",
            "S"
          >>
      [] s = "PLAYER_NOT_FOUND" ->
          <<
            "P", "L", "A", "Y", "E", "R", "_", "N", "O", "T", "_", "F", "O",
            "U", "N", "D"
          >>
      [] s = "MATCHES_NOT_FOUND" ->
          <<
            "M", "A", "T", "C", "H", "E", "S", "_", "N", "O", "T", "_", "F",
            "O", "U", "N", "D"
          >>
      [] s = "DATA_SERVICE_ERROR" ->
          <<
            "D", "A", "T", "A", "_", "S", "E", "R", "V", "I", "C", "E", "_",
            "E", "R", "R", "O", "R"
          >>
      [] s = "CORTEX_SERVICE_ERROR" ->
          <<
            "C", "O", "R", "T", "E", "X", "_", "S", "E", "R", "V", "I", "C",
            "E", "_", "E", "R", "R", "O", "R"
          >>
      [] s = "INTERNAL_ERROR" ->
          <<
            "I", "N", "T", "E", "R", "N", "A", "L", "_", "E", "R", "R", "O",
            "R"
          >>
      [] s = "down" -> <<"d", "o", "w", "n">>
      [] s = "a\"b" -> <<"a", "\"", "b">>
      [] s = "x\\y" -> <<"x", "\\", "y">>
      [] s = "<b>" -> <<"<", "b", ">">>
      [] s = "R&D" -> <<"R", "&", "D">>
      [] s = "two\nlines" -> <<"t", "w", "o", "\n", "l", "i", "n", "e", "s">>
      [] s = "Invalid JSON" -> <<"I", "n", "v", "a", "l", "i", "d", " ", "J", "S", "O", "N">>
      [] s = "{\"error\":1}" -> <<"{", "\"", "e", "r", "r", "o", "r", "\"", ":", "1", "}">>
      [] s = "Player not found: Ann#NA1" ->
          <<
            "P", "l", "a", "y", "e", "r", " ", "n", "o", "t", " ", "f", "o",
            "u", "n", "d", ":", " ", "A", "n", "n", "#", "N", "A", "1"
          >>
      [] s = "Player not found: #NA1" ->
          <<
            "P", "l", "a", "y", "e", "r", " ", "n", "o", "t", " ", "f", "o",
            "u", "n", "d", ":", " ", "#", "N", "A", "1"
          >>
      [] s = "short-puuid" -> <<"s", "h", "o", "r", "t", "-", "p", "u", "u", "i", "d">>
      [] s = "abcdefghijklmnopqrstuvwxyz0123456789ABCDEFGHIJKLMNOPQRSTUVWXYZ0123456789abcdef" ->
          <<
            "a", "b", "c", "d", "e", "f", "g", "h", "i", "j", "k", "l", "m",
            "n", "o", "p", "q", "r", "s", "t", "u", "v", "w", "x", "y", "z",
            "0", "1", "2", "3", "4", "5", "6", "7", "8", "9", "A", "B", "C",
            "D", "E", "F", "G", "H", "I", "J", "K", "L", "M", "N", "O", "P",
            "Q", "R", "S", "T", "U", "V", "W", "X", "Y", "Z", "0", "1", "2",
            "3", "4", "5", "6", "7", "8", "9", "a", "b", "c", "d", "e", "f"
          >>
      [] s = "abcdefghijklmnopqrstuvwxyz-0123456789_ABCDEFGHIJKLMNOPQRSTUVWXYZ0123456789abcd" ->
          <<
            "a", "b", "c", "d", "e", "f", "g", "h", "i", "j", "k", "l", "m",
            "n", "o", "p", "q", "r", "s", "t", "u", "v", "w", "x", "y", "z",
            "-", "0", "1", "2", "3", "4", "5", "6", "7", "8", "9", "_", "A",
            "B", "C", "D", "E", "F", "G", "H", "I", "J", "K", "L", "M", "N",
            "O", "P", "Q", "R", "S", "T", "U", "V", "W", "X", "Y", "Z", "0",
            "1", "2", "3", "4", "5", "6", "7", "8", "9", "a", "b", "c", "d"
          >>
      [] s = "abcdefghijklmnopqrstuvwxyz!0123456789_ABCDEFGHIJKLMNOPQRSTUVWXYZ0123456789abcd" ->
          <<
            "a", "b", "c", "d", "e", "f", "g", "h", "i", "j", "k", "l", "m",
            "n", "o", "p", "q", "r", "s", "t", "u", "v", "w", "x", "y", "z",
            "!", "0", "1", "2", "3", "4", "5", "6", "7", "8", "9", "_", "A",
            "B", "C", "D", "E", "F", "G", "H", "I", "J", "K", "L", "M", "N",
            "O", "P", "Q", "R", "S", "T", "U", "V", "W", "X", "Y", "Z", "0",
            "1", "2", "3", "4", "5", "6", "7", "8", "9", "a", "b", "c", "d"
          >>
      [] s = "Bearer " -> <<"B", "e", "a", "r", "e", "r", " ">>
      [] s = "Bearer tok-1" -> <<"B", "e", "a", "r", "e", "r", " ", "t", "o", "k", "-", "1">>
      [] s = "Bearer" -> <<"B", "e", "a", "r", "e", "r">>
      [] s = "bearer tok-1" -> <<"b", "e", "a", "r", "e", "r", " ", "t", "o", "k", "-", "1">>
      [] s = "Basic abc" -> <<"B", "a", "s", "i", "c", " ", "a", "b", "c">>
      [] s = "tok-1" -> <<"t", "o", "k", "-", "1">>
      [] s = "123e4567-e89b-12d3-a456-426614174000" ->
           <<"1", "2", "3", "e", "4", "5", "6", "7", "-", "e", "8", "9", "b", "-", "1",
             "2", "d", "3", "-", "a", "4", "5", "6", "-", "4", "2", "6", "6", "1", "4",
             "1", "7", "4", "0", "0", "0">>
      [] s = "123E4567E89B12D3A456426614174000" ->
           <<"1", "2", "3", "E", "4", "5", "6", "7", "E", "8", "9", "B", "1", "2", "D",
             "3", "A", "4", "5", "6", "4", "2", "6", "6", "1", "4", "1", "7", "4", "0",
             "0", "0">>
      [] s = "not-a-uuid" -> <<"n", "o", "t", "-", "a", "-", "u", "u", "i", "d">>
      [] s = "123e4567-e89b-12d3-a456-42661417400g" ->
           <<"1", "2", "3", "e", "4", "5", "6", "7", "-", "e", "8", "9", "b", "-", "1",
             "2", "d", "3", "-", "a", "4", "5", "6", "-", "4", "2", "6", "6", "1", "4",
             "1", "7", "4", "0", "0", "g">>
      [] s = "123e4567_e89b_12d3_a456_426614174000" ->
           <<"1", "2", "3", "e", "4", "5", "6", "7", "_", "e", "8", "9", "b", "_", "1",
             "2", "d", "3", "_", "a", "4", "5", "6", "_", "4", "2", "6", "6", "1", "4",
             "1", "7", "4", "0", "0", "0">>
      [] s = "{123e4567-e89b-12d3-a456-426614174000}" ->
           <<"{", "1", "2", "3", "e", "4", "5", "6", "7", "-", "e", "8", "9", "b", "-",
             "1", "2", "d", "3", "-", "a", "4", "5", "6", "-", "4", "2", "6", "6", "1",
             "4", "1", "7", "4", "0", "0", "0", "}">>
      [] s = "urn:uuid:123e4567-e89b-12d3-a456-426614174000" ->
           <<"u", "r", "n", ":", "u", "u", "i", "d", ":", "1", "2", "3", "e", "4", "5",
             "6", "7", "-", "e", "8", "9", "b", "-", "1", "2", "d", "3", "-", "a", "4",
             "5", "6", "-", "4", "2", "6", "6", "1", "4", "1", "7", "4", "0", "0", "0">>
      [] s = "urn:uuid:" -> <<"u", "r", "n", ":", "u", "u", "i", "d", ":">>
      [] s = "123e4567e89b12d3a456426614174000" ->
           <<"1", "2", "3", "e", "4", "5", "6", "7", "e", "8", "9", "b", "1", "2", "d",
             "3", "a", "4", "5", "6", "4", "2", "6", "6", "1", "4", "1", "7", "4", "0",
             "0", "0">>

UpperLetters ==
    <<"A", "B", "C", "D", "E", "F", "G", "H", "I", "J", "K", "L", "M",
      "N", "O", "P", "Q", "R", "S", "T", "U", "V", "W", "X", "Y", "Z">>
LowerLetters ==
    <<"a", "b", "c", "d", "e", "f", "g", "h", "i", "j", "k", "l", "m",
      "n", "o", "p", "q", "r", "s", "t", "u", "v", "w", "x", "y", "z">>
DecimalDigits == <<"0", "1", "2", "3", "4", "5", "6", "7", "8", "9">>

Range(f) == {f[i] : i \in DOMAIN f}

RECURSIVE Concat(_)
Concat(cs) == IF cs = << >> THEN "" ELSE Head(cs) \o Concat(Tail(cs))

\* strings.ToLower, character by character
ToLowerChar(c) ==
    IF c \in Range(UpperLetters)
    THEN LowerLetters[CHOOSE i \in DOMAIN UpperLetters : UpperLetters[i] = c]
    ELSE c

ToLower(s) == Concat([i \in DOMAIN Chars(s) |-> ToLowerChar(Chars(s)[i])])

NormalizeRegion(region) == ToLower(region)

ValidRegions ==
    {"na", "euw", "eune", "kr", "jp", "br", "lan", "las", "oce", "tr", "ru", "ph", "sg",
     "th", "tw", "vn"}

\* regexp ^[class]+$ : at least one character, every character in the class
MatchString(class, s) == Chars(s) # << >> /\ \A i \in DOMAIN Chars(s) : Chars(s)[i] \in class

GameNameChars == Range(LowerLetters) \cup Range(UpperLetters) \cup Range(DecimalDigits) \cup {" ", "_"}
TagLineChars == Range(LowerLetters) \cup Range(UpperLetters) \cup Range(DecimalDigits)
PUUIDChars == Range(LowerLetters) \cup Range(UpperLetters) \cup Range(DecimalDigits) \cup {"_", "-"}

\* A ValidationResult is the sequence of its errors.
NoErrors == << >>

\* The zero MatchRequest.
NoValidationRequest == [region |-> "", gameName |-> "", tagLine |-> "", puuid |-> "", count |-> 0]

\* GetErrorMessages was not called.
NoMessages == [called |-> FALSE]

\* strings.Join
RECURSIVE Join(_, _)
Join(elems, sep) ==
    IF Len(elems) = 0 THEN ""
    ELSE IF Len(elems) = 1 THEN elems[1]
    ELSE elems[1] \o sep \o Join(Tail(elems), sep)

GetErrorMessages(result) ==
    Join([i \in DOMAIN result |-> result[i].field \o ": " \o result[i].message], "; ")

AddError(result, field, message) == Append(result, [field |-> field, message |-> message])
IsValid(result) == Len(result) = 0

validateRegion(region, result) ==
    IF region = "" THEN AddError(result, "region", "region is required")
    ELSE IF ToLower(region) \notin ValidRegions
    THEN AddError(result, "region",
                  "invalid region. Valid regions: na, euw, eune, kr, jp, br, lan, las, oce, tr, ru, ph, sg, th, tw, vn")
    ELSE result

\* Faulty variant of validateGameName: the required-field check does not
\* return, so an empty game name is also reported as too short.
validateGameNameNoReturn(gameName, result) ==
    LET r1 == IF gameName = "" THEN AddError(result, "gameName", "gameName is required")
              ELSE result
    IN IF Len(gameName) < 3
       THEN AddError(r1, "gameName", "gameName must be at least 3 characters")
       ELSE IF Len(gameName) > 16
       THEN AddError(r1, "gameName", "gameName must be at most 16 characters")
       ELSE IF ~MatchString(GameNameChars, gameName)
       THEN AddError(r1, "gameName",
                     "gameName can only contain letters, numbers, spaces, and underscores")
       ELSE r1

validateGameName(gameName, result) ==
    IF gameName = "" THEN AddError(result, "gameName", "gameName is required")
    ELSE IF Len(gameName) < 3
    THEN AddError(result, "gameName", "gameName must be at least 3 characters")
    ELSE IF Len(gameName) > 16
    THEN AddError(result, "gameName", "gameName must be at most 16 characters")
    ELSE IF ~MatchString(GameNameChars, gameName)
    THEN AddError(result, "gameName",
                  "gameName can only contain letters, numbers, spaces, and underscores")
    ELSE result

validateTagLine(tagLine, result) ==
    IF tagLine = "" THEN AddError(result, "tagLine", "tagLine is required")
    ELSE IF Len(tagLine) < 3
    THEN AddError(result, "tagLine", "tagLine must be at least 3 characters")
    ELSE IF Len(tagLine) > 5
    THEN AddError(result, "tagLine", "tagLine must be at most 5 characters")
    ELSE IF ~MatchString(TagLineChars, tagLine)
    THEN AddError(result, "tagLine", "tagLine can only contain letters and numbers")
    ELSE result

\* Faulty variant of validatePUUID: the pattern of the tag line, without
\* hyphen and underscore, is matched against the PUUID.
validatePUUIDTagLinePattern(puuid, result) ==
    IF puuid = ""
    THEN AddError(result, "puuid", "puuid is required when not using gameName and tagLine")
    ELSE IF Len(puuid) # 78 THEN AddError(result, "puuid", "puuid must be 78 characters")
    ELSE IF ~MatchString(TagLineChars, puuid)
    THEN AddError(result, "puuid", "puuid contains invalid characters")
    ELSE result

validatePUUID(puuid, result) ==
    IF puuid = ""
    THEN AddError(result, "puuid", "puuid is required when not using gameName and tagLine")
    ELSE IF Len(puuid) # 78 THEN AddError(result, "puuid", "puuid must be 78 characters")
    ELSE IF ~MatchString(PUUIDChars, puuid)
    THEN AddError(result, "puuid", "puuid contains invalid characters")
    ELSE result

\* Faulty variant of validateCount: the upper limit is compared with >=, so
\* a count of 100 is refused.
validateCountBelowLimit(count, result) ==
    IF count < 0 THEN AddError(result, "count", "count cannot be negative")
    ELSE IF count >= 100 THEN AddError(result, "count", "count cannot exceed 100")
    ELSE result

validateCount(count, result) ==
    IF count < 0 THEN AddError(result, "count", "count cannot be negative")
    ELSE IF count > 100 THEN AddError(result, "count", "count cannot exceed 100")
    ELSE result

\* Faulty variant of ValidateSummonerRequest: validation stops at the first
\* field that fails.
ValidateSummonerRequestFirstFailure(request) ==
    LET r1 == validateRegion(request.region, NoErrors)
        r2 == IF IsValid(r1) THEN validateGameName(request.gameName, r1) ELSE r1
    IN IF IsValid(r2) THEN validateTagLine(request.tagLine, r2) ELSE r2

ValidateSummonerRequest(request) ==
    validateTagLine(request.tagLine,
        validateGameName(request.gameName,
            validateRegion(request.region, NoErrors)))

\* Faulty variant of ValidateMatchRequest: the game name and the tag line are
\* validated whether or not a PUUID is given.
ValidateMatchRequestNameAlways(request) ==
    LET r1 == validateRegion(request.region, NoErrors)
        r2 == IF request.puuid # "" THEN validatePUUID(request.puuid, r1) ELSE r1
        r3 == validateTagLine(request.tagLine, validateGameName(request.gameName, r2))
    IN validateCount(request.count, r3)

ValidateMatchRequest(request) ==
    LET r1 == validateRegion(request.region, NoErrors)
        r2 == IF request.puuid # "" THEN validatePUUID(request.puuid, r1)
              ELSE validateTagLine(request.tagLine, validateGameName(request.gameName, r1))
    IN validateCount(request.count, r2)

ValidateAnalyzeRequest(request) ==
    validateTagLine(request.tagLine,
        validateGameName(request.gameName,
            validateRegion(request.region, NoErrors)))

-----------------------------------------------------------------------------
(* The error envelope as bytes: encoding/json on an ErrorResponse          *)

NoAPIError == [code |-> "", message |-> "", status |-> 0]
NewRecorder == [Code |-> 0, Header |-> NoHeaders, Body |-> << >>]
NoErrorResponse == [decoded |-> FALSE]

RECURSIVE Flatten(_)
Flatten(seqs) == IF seqs = << >> THEN << >> ELSE Head(seqs) \o Flatten(Tail(seqs))

\* How the encoder writes one character of a string: quote, backslash and
\* newline are escaped, and so are <, > and & (HTML escaping is on).
EscapeChar(c) ==
    CASE c = "\"" -> <<"\\", "\"">>
      [] c = "\\" -> <<"\\", "\\">>
      [] c = "\n" -> <<"\\", "n">>
      [] c = "<" -> <<"\\", "u", "0", "0", "3", "c">>
      [] c = ">" -> <<"\\", "u", "0", "0", "3", "e">>
      [] c = "&" -> <<"\\", "u", "0", "0", "2", "6">>
      [] OTHER -> <<c>>

EncodeString(s) ==
    <<"\"">> \o Flatten([i \in DOMAIN Chars(s) |-> EscapeChar(Chars(s)[i])]) \o <<"\"">>

\* json.NewEncoder(writer).Encode(ErrorResponse{Error: ErrorDetail{Code, Message}}):
\* the object, then a newline.
EncodeErrorResponse(detail) ==
    <<"{">> \o EncodeString("error") \o <<":", "{">>
        \o EncodeString("code") \o <<":">> \o EncodeString(detail.code) \o <<",">>
        \o EncodeString("message") \o <<":">> \o EncodeString(detail.message)
        \o <<"}", "}", "\n">>

\* What the decoder reads for an escape: the character after the backslash,
\* or the four hex digits after \u.
UnescapeChar(c) ==
    CASE c = "n" -> "\n"
      [] c = "t" -> "\t"
      [] c = "r" -> "\r"
      [] OTHER -> c
UnescapeUnicode(hex) ==
    CASE hex = <<"0", "0", "3", "c">> -> "<"
      [] hex = <<"0", "0", "3", "e">> -> ">"
      [] hex = <<"0", "0", "2", "6">> -> "&"
      [] OTHER -> "?"

ParseFailed == [ok |-> FALSE]

\* A JSON string from the character after its opening quote.
RECURSIVE ParseString(_, _, _)
ParseString(text, i, acc) ==
    IF i > Len(text) THEN ParseFailed
    ELSE IF text[i] = "\"" THEN [ok |-> TRUE, value |-> acc, next |-> i + 1]
    ELSE IF text[i] = "\\"
    THEN IF i + 1 > Len(text) THEN ParseFailed
         ELSE IF text[i + 1] = "u"
         THEN IF i + 5 > Len(text) THEN ParseFailed
              ELSE ParseString(text, i + 6,
                               Append(acc, UnescapeUnicode(SubSeq(text, i + 2, i + 5))))
         ELSE ParseString(text, i + 2, Append(acc, UnescapeChar(text[i + 1])))
    ELSE ParseString(text, i + 1, Append(acc, text[i]))

\* A JSON value made of objects and strings, from position i: a string is
\* [string |-> characters], an object [object |-> members in order].
RECURSIVE ParseValue(_, _)
RECURSIVE ParseMembers(_, _, _)
ParseValue(text, i) ==
    IF i > Len(text) THEN ParseFailed
    ELSE IF text[i] = "\""
    THEN LET str == ParseString(text, i + 1, << >>)
         IN IF str.ok THEN [ok |-> TRUE, value |-> [string |-> str.value], next |-> str.next]
            ELSE ParseFailed
    ELSE IF text[i] = "{"
    THEN IF i + 1 <= Len(text) /\ text[i + 1] = "}"
         THEN [ok |-> TRUE, value |-> [object |-> << >>], next |-> i + 2]
         ELSE ParseMembers(text, i + 1, << >>)
    ELSE ParseFailed

ParseMembers(text, i, members) ==
    IF i > Len(text) \/ text[i] # "\"" THEN ParseFailed
    ELSE LET key == ParseString(text, i + 1, << >>)
         IN IF ~key.ok \/ key.next > Len(text) \/ text[key.next] # ":" THEN ParseFailed
            ELSE LET val == ParseValue(text, key.next + 1)
                 IN IF ~val.ok \/ val.next > Len(text) THEN ParseFailed
                    ELSE LET all == Append(members, [key |-> Concat(key.value),
                                                     value |-> val.value])
                         IN IF text[val.next] = "," THEN ParseMembers(text, val.next + 1, all)
                            ELSE IF text[val.next] = "}"
                            THEN [ok |-> TRUE, value |-> [object |-> all],
                                  next |-> val.next + 1]
                            ELSE ParseFailed

\* The member of an object a struct field is decoded from: the last one with
\* the field's key.
HasMember(value, key) ==
    "object" \in DOMAIN value /\ \E i \in DOMAIN value.object : value.object[i].key = key
Member(value, key) ==
    LET last == CHOOSE i \in DOMAIN value.object :
                    /\ value.object[i].key = key
                    /\ \A j \in DOMAIN value.object : value.object[j].key = key => j <= i
    IN value.object[last].value
StringField(value, key) ==
    IF HasMember(value, key) /\ "string" \in DOMAIN Member(value, key)
    THEN Concat(Member(value, key).string)
    ELSE ""

\* json.NewDecoder(body).Decode(&errorResponse)
DecodeErrorResponse(text) ==
    LET parsed == ParseValue(text, 1)
    IN IF ~parsed.ok \/ "object" \notin DOMAIN parsed.value
       THEN [decoded |-> TRUE, err |-> TRUE]
       ELSE LET detail == IF HasMember(parsed.value, "error")
                          THEN Member(parsed.value, "error") ELSE [object |-> << >>]
            IN [decoded |-> TRUE, err |-> FALSE,
                Error |-> [Code |-> StringField(detail, "code"),
                           Message |-> StringField(detail, "message")]]

-----------------------------------------------------------------------------
(* Handlers (api/handlers.go)                                              *)

\* Request bodies a client can send: text that is no JSON, or a JSON object
\* whose absent fields decode to "" and 0.
Regions == {"", "na", "NA", "xx"}
GameNames == {"", "Ann"}
TagLines == {"", "NA1"}
RequestPUUIDs == {"", "puuid-9"}
Counts == {-1, 0, 5}

RequestBodies ==
    {[json |-> FALSE]}
      \cup {[json |-> TRUE, region |-> r, gameName |-> g, tagLine |-> t, puuid |-> p,
             count |-> c] :
               r \in Regions, g \in GameNames, t \in TagLines, p \in RequestPUUIDs, c \in Counts}

NoBody == [json |-> FALSE, read |-> FALSE]

\* Decode into the summoner / analyze request struct {Region, GameName, TagLine}:
\* other fields of the body are dropped.
DecodeRiotIDRequest(b) ==
    IF ~b.json THEN [err |-> TRUE]
    ELSE [err |-> FALSE,
          val |-> [region |-> b.region, gameName |-> b.gameName, tagLine |-> b.tagLine]]

\* Decode into the match request struct {Region, GameName, TagLine, PUUID, Count}.
DecodeMatchRequest(b) ==
    IF ~b.json THEN [err |-> TRUE]
    ELSE [err |-> FALSE,
          val |-> [region |-> b.region, gameName |-> b.gameName, tagLine |-> b.tagLine,
                   puuid |-> b.puuid, count |-> b.count]]

\* What a handler step does: write a response (and end), or invoke proxy
\* operations and wait for the answer.
Respond(r) == [write |-> r, issue |-> << >>]
Invoke(call) == [write |-> NoResponse, issue |-> <<call>>]

\* Faulty variant of WriteProxyError: every proxy error is reported as an
\* internal error.
WriteProxyErrorMasked(err) == WriteError(InternalError("An unexpected error occurred"))

\* if apiErr, ok := err.(*apierrors.APIError); ok { WriteError(apiErr) }
\* else WriteError(InternalError("An unexpected error occurred"))
WriteProxyError(err) ==
    IF err.type = "APIError" THEN WriteError(err.apiErr)
    ELSE WriteError(InternalError("An unexpected error occurred"))

HealthCheck == WriteJSON([status |-> "healthy", service |-> "opgl-gateway"])

\* GetSummoner up to its proxy call.
GetSummonerBegin(b) ==
    LET d == DecodeRiotIDRequest(b)
    IN IF d.err THEN Respond(WriteError(InvalidRequestBody("Invalid JSON format")))
       ELSE IF d.val.region = "" \/ d.val.gameName = "" \/ d.val.tagLine = ""
       THEN Respond(WriteError(MissingFields("region, gameName, and tagLine are required")))
       ELSE Invoke(SummonerCall(d.val.region, d.val.gameName, d.val.tagLine))

\* Faulty variant of GetSummonerEnd: a failed lookup is tried again.
GetSummonerEndRetry(r) ==
    IF r.err.type # "nil" THEN Invoke(calls[1]) ELSE Respond(WriteJSON(r.val))

\* GetSummoner after GetSummonerByRiotID returned r.
GetSummonerEnd(r) ==
    IF r.err.type # "nil" THEN Respond(WriteProxyError(r.err)) ELSE Respond(WriteJSON(r.val))

\* Faulty variant of DefaultCount: only an absent (zero) count is defaulted.
DefaultCountZeroOnly(count) == IF count = 0 THEN 20 ELSE count

\* count := matchRequest.Count; if count <= 0 { count = 20 }
DefaultCount(count) == IF count <= 0 THEN 20 ELSE count

\* Faulty variant of GetMatchesBegin: a name and tag in the request are
\* preferred to its PUUID.
GetMatchesBeginPreferName(b) ==
    LET d == DecodeMatchRequest(b)
    IN IF d.err THEN Respond(WriteError(InvalidRequestBody("Invalid JSON format")))
       ELSE LET m == d.val
                count == DefaultCount(m.count)
            IN IF m.puuid # "" /\ (m.gameName = "" \/ m.tagLine = "")
               THEN IF m.region = ""
                    THEN Respond(WriteError(MissingFields("region is required when using puuid")))
                    ELSE Invoke(MatchesByPUUIDCall(m.region, m.puuid, count))
               ELSE IF m.region = "" \/ m.gameName = "" \/ m.tagLine = ""
                    THEN Respond(WriteError(MissingFields(
                        "region, gameName, and tagLine are required (or use region and puuid)")))
                    ELSE Invoke(MatchesByRiotIDCall(m.region, m.gameName, m.tagLine, count))

\* Faulty variant of GetMatchesBegin: with a PUUID the region is not checked.
GetMatchesBeginRegionUnchecked(b) ==
    LET d == DecodeMatchRequest(b)
    IN IF d.err THEN Respond(WriteError(InvalidRequestBody("Invalid JSON format")))
       ELSE LET m == d.val
                count == DefaultCount(m.count)
            IN IF m.puuid # ""
               THEN Invoke(MatchesByPUUIDCall(m.region, m.puuid, count))
               ELSE IF m.region = "" \/ m.gameName = "" \/ m.tagLine = ""
                    THEN Respond(WriteError(MissingFields(
                        "region, gameName, and tagLine are required (or use region and puuid)")))
                    ELSE Invoke(MatchesByRiotIDCall(m.region, m.gameName, m.tagLine, count))

\* GetMatches up to its proxy call.
GetMatchesBegin(b) ==
    LET d == DecodeMatchRequest(b)
    IN IF d.err THEN Respond(WriteError(InvalidRequestBody("Invalid JSON format")))
       ELSE LET m == d.val
                count == DefaultCount(m.count)
            IN IF m.puuid # ""
               THEN IF m.region = ""
                    THEN Respond(WriteError(MissingFields("region is required when using puuid")))
                    ELSE Invoke(MatchesByPUUIDCall(m.region, m.puuid, count))
               ELSE IF m.region = "" \/ m.gameName = "" \/ m.tagLine = ""
                    THEN Respond(WriteError(MissingFields(
                        "region, gameName, and tagLine are required (or use region and puuid)")))
                    ELSE Invoke(MatchesByRiotIDCall(m.region, m.gameName, m.tagLine, count))

\* GetMatches after its proxy call returned r.
GetMatchesEnd(r) ==
    IF r.err.type # "nil" THEN Respond(WriteProxyError(r.err)) ELSE Respond(WriteJSON(r.val))

\* Faulty variant of AnalyzePlayerBegin: summoner and matches are requested
\* together, by name (parallel fan-out).
AnalyzePlayerBeginFanOut(b) ==
    LET d == DecodeRiotIDRequest(b)
    IN IF d.err THEN Respond(WriteError(InvalidRequestBody("Invalid JSON format")))
       ELSE IF d.val.region = "" \/ d.val.gameName = "" \/ d.val.tagLine = ""
       THEN Respond(WriteError(MissingFields("region, gameName, and tagLine are required")))
       ELSE [write |-> NoResponse,
             issue |-> <<SummonerCall(d.val.region, d.val.gameName, d.val.tagLine),
                         MatchesByPUUIDCall(d.val.region, "", 20)>>]

\* AnalyzePlayer up to step 1.
AnalyzePlayerBegin(b) ==
    LET d == DecodeRiotIDRequest(b)
    IN IF d.err THEN Respond(WriteError(InvalidRequestBody("Invalid JSON format")))
       ELSE IF d.val.region = "" \/ d.val.gameName = "" \/ d.val.tagLine = ""
       THEN Respond(WriteError(MissingFields("region, gameName, and tagLine are required")))
       ELSE Invoke(SummonerCall(d.val.region, d.val.gameName, d.val.tagLine))

\* Faulty variant of AnalyzeMatchesCall: the matches are looked up by name again.
AnalyzeMatchesCallByRiotID(analyzeRequest, summoner) ==
    MatchesByRiotIDCall(analyzeRequest.region, analyzeRequest.gameName,
                        analyzeRequest.tagLine, 20)

\* Faulty variant of AnalyzeMatchesCall: the count is taken from the request body.
AnalyzeMatchesCallBodyCount(analyzeRequest, summoner) ==
    MatchesByPUUIDCall(analyzeRequest.region, summoner.puuid,
                       IF body.count <= 0 THEN 20 ELSE body.count)

\* Step 2's call: handler.serviceProxy.GetMatchesByPUUID(Region, summoner.PUUID, 20)
AnalyzeMatchesCall(analyzeRequest, summoner) ==
    MatchesByPUUIDCall(analyzeRequest.region, summoner.puuid, 20)

\* Faulty variant of AnalyzePlayerAfterSummoner: step 1's error is not checked
\* and step 2 runs with the empty summoner.
AnalyzePlayerAfterSummonerUnchecked(b, r) ==
    Invoke(AnalyzeMatchesCall(DecodeRiotIDRequest(b).val,
                              IF r.err.type # "nil" THEN [puuid |-> ""] ELSE r.val))

\* Faulty variant of AnalyzePlayerAfterSummoner: a summoner without a PUUID is
\* answered as not found.
AnalyzePlayerAfterSummonerChecked(b, r) ==
    LET analyzeRequest == DecodeRiotIDRequest(b).val
    IN IF r.err.type # "nil" THEN Respond(WriteProxyError(r.err))
       ELSE IF r.val.puuid = ""
       THEN Respond(WriteError(PlayerNotFound(analyzeRequest.gameName,
                                              analyzeRequest.tagLine)))
       ELSE Invoke(AnalyzeMatchesCall(analyzeRequest, r.val))

\* AnalyzePlayer after step 1 returned r.
AnalyzePlayerAfterSummoner(b, r) ==
    IF r.err.type # "nil" THEN Respond(WriteProxyError(r.err))
    ELSE Invoke(AnalyzeMatchesCall(DecodeRiotIDRequest(b).val, r.val))

\* AnalyzePlayer after step 2 returned r; summoner is step 1's value.
AnalyzePlayerAfterMatches(summoner, r) ==
    IF r.err.type # "nil" THEN Respond(WriteProxyError(r.err))
    ELSE Invoke(AnalyzeCall(summoner, r.val))

\* AnalyzePlayer after step 3 returned r.
AnalyzePlayerEnd(r) ==
    IF r.err.type # "nil" THEN Respond(WriteProxyError(r.err)) ELSE Respond(WriteJSON(r.val))

\* The handler a route is registered with, up to its first proxy call.
HandlerBegin(route, b) ==
    CASE route = "/health" -> Respond(HealthCheck)
      [] route = "/api/v1/summoner" -> GetSummonerBegin(b)
      [] route = "/api/v1/matches" -> GetMatchesBegin(b)
      [] route = "/api/v1/analyze" -> AnalyzePlayerBegin(b)

\* The handler after its pending call returned r; b is the request it
\* decoded and earlier the results of its earlier calls.
HandlerResume(route, b, earlier, r) ==
    CASE route = "/api/v1/summoner" -> GetSummonerEnd(r)
      [] route = "/api/v1/matches" -> GetMatchesEnd(r)
      [] route = "/api/v1/analyze" ->
           IF Len(earlier) = 0 THEN AnalyzePlayerAfterSummoner(b, r)
           ELSE IF Len(earlier) = 1 THEN AnalyzePlayerAfterMatches(earlier[1].val, r)
           ELSE AnalyzePlayerEnd(r)

-----------------------------------------------------------------------------
(* The request's path through router, middleware and handler               *)

\* LoggingMiddleware and the auth middlewares before a request.
NoLogRequest == [method |-> "", ops |-> << >>]
NoWriter == [wrapped |-> FALSE]
NoAuthRequest == [policy |-> "", header |-> ""]
NoAuthTrace == [posted |-> << >>, answers |-> << >>, written |-> << >>, next |-> << >>]

\* The goroutines net/http serves requests on, one request each.
Goroutines == {1, 2}

\* The locals of a goroutine that serves no request yet.
IdleGoroutine ==
    [pc |-> "idle", route |-> "", apiKey |-> "", authKey |-> "", authResp |-> NoAuthResponse,
     now |-> NoTime, body |-> NoBody, hdrs |-> NoHeaders, resp |-> NoResponse,
     calls |-> << >>, rets |-> << >>, wire |-> << >>]

Routes == {"/health", "/api/v1/summoner", "/api/v1/matches", "/api/v1/analyze"}
APIRoutes == Routes \ {"/health"}

\* The middleware in front of an API route: RateLimitMiddleware ("hard", as
\* SetupRouter installs it), OptionalRateLimitMiddleware ("optional"), or
\* none (SetupRouter with a nil RateLimitClient).  /health never has one.
Gates == {"hard", "optional", "none"}
APIKeys == {"", "key-1"}
Impls == {"live", "stub"}

NoRequest == [route |-> "", gate |-> "none", apiKey |-> "", impl |-> "live"]

\* The server before a request arrived.
GatewayIdle ==
    /\ pc = "idle"
    /\ req = NoRequest
    /\ body = NoBody
    /\ authResp = NoAuthResponse
    /\ rateLimitResult = NoResult
    /\ now = NoTime
    /\ hdrs = NoHeaders
    /\ resp = NoResponse
    /\ calls = << >>
    /\ rets = << >>
    /\ wire = << >>
    /\ invoked = 0
    /\ authCalls = 0
    /\ keyedRequests = 0
    /\ authorityCalls = 0

\* No validator has run.
NoValidatorRun ==
    /\ validateInput = NoValidationRequest
    /\ validateFunc = ""
    /\ validationResult = NoErrors
    /\ errorMessages = NoMessages

\* WriteError has not been called.
NoErrorWritten ==
    /\ apiError = NoAPIError
    /\ responseRecorder = NewRecorder
    /\ errorResponse = NoErrorResponse

\* No goroutine serves a request.
NoneInFlight ==
    /\ inflight = [g \in Goroutines |-> IdleGoroutine]
    /\ started = << >>

\* LoggingMiddleware has not been entered.
NothingLogged ==
    /\ logRequest = NoLogRequest
    /\ wrappedWriter = NoWriter
    /\ served = 0
    /\ logEvents = << >>

\* No auth middleware has been entered.
NoTokenChecked ==
    /\ authRequest = NoAuthRequest
    /\ authPc = "idle"
    /\ authTrace = NoAuthTrace

Init ==
    GatewayIdle /\ NoValidatorRun /\ NoErrorWritten /\ NoneInFlight /\ NothingLogged
      /\ NoTokenChecked

\* Faulty variant of Arrive: /health is registered behind the rate-limit
\* middleware like the API routes.
ArriveHealthGated ==
    /\ pc = "idle"
    /\ \E route \in Routes, gate \in Gates, key \in APIKeys, impl \in Impls :
          /\ route = "/health" => impl = "live"
          /\ (gate # "none" /\ key # "") => keyedRequests < MaxRequests
          /\ req' = [route |-> route, gate |-> gate, apiKey |-> key, impl |-> impl]
          /\ pc' = IF gate = "none" THEN "handler" ELSE "mw"
          /\ invoked' = IF gate = "none" THEN invoked + 1 ELSE invoked
          /\ keyedRequests' = IF gate # "none" /\ key # ""
                              THEN keyedRequests + 1 ELSE keyedRequests
    /\ UNCHANGED <<body, authResp, rateLimitResult, now, hdrs, resp, calls, rets, wire,
                   authCalls, authorityCalls>>
    /\ UNCHANGED packages

\* A request arrives and the router dispatches it.
Arrive ==
    /\ pc = "idle"
    /\ \E route \in Routes, gate \in Gates, key \in APIKeys, impl \in Impls :
          /\ route = "/health" => gate = "none" /\ impl = "live"
          /\ (gate # "none" /\ key # "") => keyedRequests < MaxRequests
          /\ req' = [route |-> route, gate |-> gate, apiKey |-> key, impl |-> impl]
          /\ pc' = IF gate = "none" THEN "handler" ELSE "mw"
          /\ invoked' = IF gate = "none" THEN invoked + 1 ELSE invoked
          /\ keyedRequests' = IF gate # "none" /\ key # ""
                              THEN keyedRequests + 1 ELSE keyedRequests
    /\ UNCHANGED <<body, authResp, rateLimitResult, now, hdrs, resp, calls, rets, wire,
                   authCalls, authorityCalls>>
    /\ UNCHANGED packages

\* A middleware ends: it wrote an error, or it called next.ServeHTTP.
MiddlewareEnds(o) ==
    /\ hdrs' = o.hdrs
    /\ resp' = IF o.written THEN WriteError(o.error) ELSE resp
    /\ pc' = IF o.next THEN "handler" ELSE "done"
    /\ invoked' = IF o.next THEN invoked + 1 ELSE invoked

\* Faulty variant of MiddlewareCallsAuthority: the authority is asked for the
\* first request only; later requests reuse what is known.
MiddlewareCallsAuthorityOnce ==
    /\ pc' = "auth"
    /\ authCalls' = authCalls + 1
    /\ authorityCalls' = IF authorityCalls = 0 THEN 1 ELSE authorityCalls
    /\ UNCHANGED <<hdrs, resp, invoked>>

\* The quota check never returns: the middleware stays blocked in it.
MiddlewareHangs ==
    /\ pc' = "hung"
    /\ UNCHANGED <<authResp, rateLimitResult, now, hdrs, resp, invoked>>

\* The middleware sends its quota check and blocks on the answer.
MiddlewareCallsAuthority ==
    /\ pc' = "auth"
    /\ authCalls' = authCalls + 1
    /\ authorityCalls' = authorityCalls + 1
    /\ UNCHANGED <<hdrs, resp, invoked>>

RateLimitMiddlewareEnter ==
    /\ pc = "mw" /\ req.gate = "hard"
    /\ IF req.apiKey = ""
       THEN MiddlewareEnds(RateLimitNoKey(hdrs)) /\ UNCHANGED <<authCalls, authorityCalls>>
       ELSE MiddlewareCallsAuthority
    /\ UNCHANGED <<req, body, authResp, rateLimitResult, now, calls, rets, wire,
                   keyedRequests>>
    /\ UNCHANGED packages

RateLimitMiddlewareResume ==
    /\ pc = "auth" /\ req.gate = "hard"
    /\ \E a \in AuthResponses, t \in Times :
          LET c == CheckRateLimit(a, t)
          IN IF Blocks(c) THEN MiddlewareHangs
             ELSE /\ authResp' = a
                  /\ rateLimitResult' = c
                  /\ now' = IF ReadsClock(req.gate, a, c) THEN ClockRead(t) ELSE NoTime
                  /\ MiddlewareEnds(RateLimitChecked(hdrs, c, t))
    /\ UNCHANGED <<req, body, calls, rets, wire, authCalls, keyedRequests,
                   authorityCalls>>
    /\ UNCHANGED packages

OptionalRateLimitMiddlewareEnter ==
    /\ pc = "mw" /\ req.gate = "optional"
    /\ IF req.apiKey = ""
       THEN MiddlewareEnds(OptionalRateLimitNoKey(hdrs))
            /\ UNCHANGED <<authCalls, authorityCalls>>
       ELSE MiddlewareCallsAuthority
    /\ UNCHANGED <<req, body, authResp, rateLimitResult, now, calls, rets, wire,
                   keyedRequests>>
    /\ UNCHANGED packages

OptionalRateLimitMiddlewareResume ==
    /\ pc = "auth" /\ req.gate = "optional"
    /\ \E a \in AuthResponses, t \in Times :
          LET c == CheckRateLimit(a, t)
          IN IF Blocks(c) THEN MiddlewareHangs
             ELSE /\ authResp' = a
                  /\ rateLimitResult' = c
                  /\ now' = IF ReadsClock(req.gate, a, c) THEN ClockRead(t) ELSE NoTime
                  /\ MiddlewareEnds(OptionalRateLimitChecked(hdrs, c, t))
    /\ UNCHANGED <<req, body, calls, rets, wire, authCalls, keyedRequests,
                   authorityCalls>>
    /\ UNCHANGED packages

\* A handler step ends: it wrote the response, or it invoked the proxy and
\* blocks on the result.
HandlerStep(o) ==
    /\ resp' = o.write
    /\ calls' = calls \o o.issue
    /\ pc' = IF o.write.kind = "none" THEN "wait" ELSE "done"

\* The handler reads the body the client sent.
HandlerReads(b) == body' = b

\* The pending proxy call returns.
ProxyReturns(out) ==
    /\ rets' = Append(rets, out.result)
    /\ wire' = Append(wire, out.wire)

\* The pending proxy call never returns: the handler stays blocked in it.
HandlerHangs ==
    /\ pc' = "hung"
    /\ UNCHANGED <<resp, calls, rets, wire>>

Pending == calls[Len(rets) + 1]

HealthCheckHandler ==
    /\ pc = "handler" /\ req.route = "/health"
    /\ HandlerStep(Respond(HealthCheck))
    /\ UNCHANGED <<req, body, authResp, rateLimitResult, now, hdrs, rets, wire, invoked,
                   authCalls, keyedRequests, authorityCalls>>
    /\ UNCHANGED packages

GetSummonerStart ==
    /\ pc = "handler" /\ req.route = "/api/v1/summoner"
    /\ \E b \in RequestBodies : HandlerReads(b) /\ HandlerStep(GetSummonerBegin(b))
    /\ UNCHANGED <<req, authResp, rateLimitResult, now, hdrs, rets, wire, invoked, authCalls,
                   keyedRequests, authorityCalls>>
    /\ UNCHANGED packages

GetSummonerReturn ==
    /\ pc = "wait" /\ req.route = "/api/v1/summoner" /\ Len(rets) = 0
    /\ \E out \in Outcomes(req.impl, Pending) :
          IF Blocks(out.result) THEN HandlerHangs
          ELSE ProxyReturns(out) /\ HandlerStep(GetSummonerEnd(out.result))
    /\ UNCHANGED <<req, body, authResp, rateLimitResult, now, hdrs, invoked, authCalls,
                   keyedRequests, authorityCalls>>
    /\ UNCHANGED packages

GetMatchesStart ==
    /\ pc = "handler" /\ req.route = "/api/v1/matches"
    /\ \E b \in RequestBodies : HandlerReads(b) /\ HandlerStep(GetMatchesBegin(b))
    /\ UNCHANGED <<req, authResp, rateLimitResult, now, hdrs, rets, wire, invoked, authCalls,
                   keyedRequests, authorityCalls>>
    /\ UNCHANGED packages

GetMatchesReturn ==
    /\ pc = "wait" /\ req.route = "/api/v1/matches" /\ Len(rets) = 0
    /\ \E out \in Outcomes(req.impl, Pending) :
          IF Blocks(out.result) THEN HandlerHangs
          ELSE ProxyReturns(out) /\ HandlerStep(GetMatchesEnd(out.result))
    /\ UNCHANGED <<req, body, authResp, rateLimitResult, now, hdrs, invoked, authCalls,
                   keyedRequests, authorityCalls>>
    /\ UNCHANGED packages

AnalyzePlayerStart ==
    /\ pc = "handler" /\ req.route = "/api/v1/analyze"
    /\ \E b \in RequestBodies : HandlerReads(b) /\ HandlerStep(AnalyzePlayerBegin(b))
    /\ UNCHANGED <<req, authResp, rateLimitResult, now, hdrs, rets, wire, invoked, authCalls,
                   keyedRequests, authorityCalls>>
    /\ UNCHANGED packages

AnalyzePlayerStep1 ==
    /\ pc = "wait" /\ req.route = "/api/v1/analyze" /\ Len(rets) = 0
    /\ \E out \in Outcomes(req.impl, Pending) :
          IF Blocks(out.result) THEN HandlerHangs
          ELSE ProxyReturns(out) /\ HandlerStep(AnalyzePlayerAfterSummoner(body, out.result))
    /\ UNCHANGED <<req, body, authResp, rateLimitResult, now, hdrs, invoked, authCalls,
                   keyedRequests, authorityCalls>>
    /\ UNCHANGED packages

AnalyzePlayerStep2 ==
    /\ pc = "wait" /\ req.route = "/api/v1/analyze" /\ Len(rets) = 1
    /\ \E out \in Outcomes(req.impl, Pending) :
          IF Blocks(out.result) THEN HandlerHangs
          ELSE ProxyReturns(out) /\ HandlerStep(AnalyzePlayerAfterMatches(rets[1].val, out.result))
    /\ UNCHANGED <<req, body, authResp, rateLimitResult, now, hdrs, invoked, authCalls,
                   keyedRequests, authorityCalls>>
    /\ UNCHANGED packages

AnalyzePlayerStep3 ==
    /\ pc = "wait" /\ req.route = "/api/v1/analyze" /\ Len(rets) = 2
    /\ \E out \in Outcomes(req.impl, Pending) :
          IF Blocks(out.result) THEN HandlerHangs
          ELSE ProxyReturns(out) /\ HandlerStep(AnalyzePlayerEnd(out.result))
    /\ UNCHANGED <<req, body, authResp, rateLimitResult, now, hdrs, invoked, authCalls,
                   keyedRequests, authorityCalls>>
    /\ UNCHANGED packages

\* The response is sent; the server takes the next request.
Finish ==
    /\ pc = "done"
    /\ pc' = "idle"
    /\ req' = NoRequest
    /\ body' = NoBody
    /\ authResp' = NoAuthResponse
    /\ rateLimitResult' = NoResult
    /\ now' = NoTime
    /\ hdrs' = NoHeaders
    /\ resp' = NoResponse
    /\ calls' = << >>
    /\ rets' = << >>
    /\ wire' = << >>
    /\ invoked' = 0
    /\ authCalls' = 0
    /\ UNCHANGED <<keyedRequests, authorityCalls>>
    /\ UNCHANGED packages

Next ==
    \/ Arrive
    \/ RateLimitMiddlewareEnter
    \/ RateLimitMiddlewareResume
    \/ OptionalRateLimitMiddlewareEnter
    \/ OptionalRateLimitMiddlewareResume
    \/ HealthCheckHandler
    \/ GetSummonerStart
    \/ GetSummonerReturn
    \/ GetMatchesStart
    \/ GetMatchesReturn
    \/ AnalyzePlayerStart
    \/ AnalyzePlayerStep1
    \/ AnalyzePlayerStep2
    \/ AnalyzePlayerStep3
    \/ Finish

Spec == Init /\ [][Next]_vars

-----------------------------------------------------------------------------
(* The validators run on their own (validation/validation.go)              *)

\* Field values a caller can put in a request: absent, well-formed, and one
\* for each way a rule can fail, with the lengths at both ends of a range.
ValidationRegions == {"", "na", "NA", "Na", "xx"}
ValidationGameNames ==
    {"", "Ann", "A b_1", "ab", "a!c", "abcdefghijklmnop", "abcdefghijklmnopq"}
ValidationTagLines == {"", "NA1", "abcde", "T1", "TOOLNG", "NA-1"}
ValidationPUUIDs ==
    {"",
     "abcdefghijklmnopqrstuvwxyz0123456789ABCDEFGHIJKLMNOPQRSTUVWXYZ0123456789abcdef",
     "abcdefghijklmnopqrstuvwxyz-0123456789_ABCDEFGHIJKLMNOPQRSTUVWXYZ0123456789abcd",
     "abcdefghijklmnopqrstuvwxyz!0123456789_ABCDEFGHIJKLMNOPQRSTUVWXYZ0123456789abcd",
     "short-puuid"}
ValidationCounts == {-1, 0, 10, 100, 101}

ValidationRequests ==
    [region : ValidationRegions, gameName : ValidationGameNames,
     tagLine : ValidationTagLines, puuid : ValidationPUUIDs, count : ValidationCounts]

\* The request structs: a summoner and an analyze request hold a region, a
\* game name and a tag line; a match request also a PUUID and a count.
SummonerRequest(q) == [region |-> q.region, gameName |-> q.gameName, tagLine |-> q.tagLine]
MatchRequest(q) == q
AnalyzeRequest(q) == [region |-> q.region, gameName |-> q.gameName, tagLine |-> q.tagLine]

InitValidation ==
    /\ GatewayIdle
    /\ validateInput \in ValidationRequests
    /\ validateFunc = ""
    /\ validationResult = NoErrors
    /\ errorMessages = NoMessages
    /\ NoErrorWritten
    /\ NoneInFlight
    /\ NothingLogged
    /\ NoTokenChecked

CallValidateSummonerRequest ==
    /\ validateFunc = ""
    /\ validateFunc' = "ValidateSummonerRequest"
    /\ validationResult' = ValidateSummonerRequest(SummonerRequest(validateInput))
    /\ UNCHANGED <<validateInput, errorMessages, outsideValidation>>

CallValidateMatchRequest ==
    /\ validateFunc = ""
    /\ validateFunc' = "ValidateMatchRequest"
    /\ validationResult' = ValidateMatchRequest(MatchRequest(validateInput))
    /\ UNCHANGED <<validateInput, errorMessages, outsideValidation>>

CallValidateAnalyzeRequest ==
    /\ validateFunc = ""
    /\ validateFunc' = "ValidateAnalyzeRequest"
    /\ validationResult' = ValidateAnalyzeRequest(AnalyzeRequest(validateInput))
    /\ UNCHANGED <<validateInput, errorMessages, outsideValidation>>

CallGetErrorMessages ==
    /\ validateFunc # ""
    /\ ~errorMessages.called
    /\ errorMessages' = [called |-> TRUE, text |-> GetErrorMessages(validationResult)]
    /\ UNCHANGED <<validateInput, validateFunc, validationResult, outsideValidation>>

NextValidation ==
    \/ CallValidateSummonerRequest
    \/ CallValidateMatchRequest
    \/ CallValidateAnalyzeRequest
    \/ CallGetErrorMessages

SpecValidation == InitValidation /\ [][NextValidation]_vars

-----------------------------------------------------------------------------
(* WriteError run on its own (errors package)                              *)

ErrorMessages ==
    {"", "down", "a\"b", "x\\y", "<b>", "R&D", "two\nlines", "Invalid JSON", "{\"error\":1}"}

\* The errors of the taxonomy.
APIErrors ==
    {InvalidRequestBody(m) : m \in ErrorMessages}
      \cup {MissingFields(m) : m \in ErrorMessages}
      \cup {PlayerNotFound(g, "NA1") : g \in {"", "Ann"}}
      \cup {MatchesNotFound(m) : m \in ErrorMessages}
      \cup {DataServiceError(m) : m \in ErrorMessages}
      \cup {CortexServiceError(m) : m \in ErrorMessages}
      \cup {InternalError(m) : m \in ErrorMessages}

InitErrors ==
    /\ GatewayIdle
    /\ NoValidatorRun
    /\ apiError \in APIErrors
    /\ responseRecorder = NewRecorder
    /\ errorResponse = NoErrorResponse
    /\ NoneInFlight
    /\ NothingLogged
    /\ NoTokenChecked

\* WriteError(responseRecorder, apiError)
CallWriteError ==
    /\ responseRecorder = NewRecorder
    /\ LET written == WriteError(apiError)
       IN responseRecorder' =
              [Code |-> written.status,
               Header |-> SetHeader(NoHeaders, "Content-Type", written.ctype),
               Body |-> EncodeErrorResponse(written.error)]
    /\ UNCHANGED <<apiError, errorResponse, outsideErrors>>

\* json.NewDecoder(responseRecorder.Body).Decode(&errorResponse)
CallDecodeErrorResponse ==
    /\ responseRecorder # NewRecorder
    /\ ~errorResponse.decoded
    /\ errorResponse' = DecodeErrorResponse(responseRecorder.Body)
    /\ UNCHANGED <<apiError, responseRecorder, outsideErrors>>

NextErrors ==
    \/ CallWriteError
    \/ CallDecodeErrorResponse

SpecErrors == InitErrors /\ [][NextErrors]_vars

-----------------------------------------------------------------------------
(* Requests served at the same time (net/http: a goroutine per request)    *)

\* What two requests in flight can differ in.
ConcurrentRoutes == {"/api/v1/summoner", "/api/v1/analyze"}
ConcurrentKeys == {"", "key-1", "key-2"}
ConcurrentTimes == {0}
ConcurrentAuthResponses ==
    {a \in AuthResponses :
        \/ a.kind = "transport"
        \/ /\ a.kind = "http" /\ a.status = StatusOK /\ a.json
           /\ a.decision.limit = 1 /\ a.decision.remaining = 0 /\ a.decision.reset = 0}
ConcurrentBodies ==
    {b \in RequestBodies :
        b.json => /\ b.region \in {"na", "xx"} /\ b.gameName = "Ann" /\ b.tagLine = "NA1"
                  /\ b.puuid = "" /\ b.count = 0}
ConcurrentBackendResponses ==
    {b \in BackendResponses :
        \/ b.kind = "transport"
        \/ b.kind = "http" /\ b.status = StatusNotFound
        \/ /\ b.kind = "http" /\ b.status = StatusOK
           /\ \/ b.body.shape = "object" /\ b.body.puuid # ""
              \/ b.body.shape = "array" /\ b.body.items = << >>}

InitConcurrent ==
    /\ GatewayIdle
    /\ NoValidatorRun
    /\ NoErrorWritten
    /\ NoneInFlight
    /\ NothingLogged
    /\ NoTokenChecked

\* Faulty variant of DecodedRequest: the handler decodes into a field of the
\* shared Handler, so a later step reads the request decoded last.
DecodedRequestInHandlerField(g) ==
    LET decoded == {i \in DOMAIN started : inflight[started[i]].body.json}
        last == CHOOSE i \in decoded : \A j \in decoded : j <= i
    IN inflight[started[last]].body

\* The request a handler decoded into its local variable.
DecodedRequest(g) == inflight[g].body

\* Goroutine g's locals after a middleware outcome o.
AfterMiddleware(g, o) ==
    [inflight[g] EXCEPT !.hdrs = o.hdrs,
                        !.resp = IF o.written THEN WriteError(o.error) ELSE @,
                        !.pc = IF o.next THEN "handler" ELSE "done"]

\* Goroutine g's locals after a handler step o.
AfterHandlerStep(l, o) ==
    [l EXCEPT !.resp = o.write,
              !.calls = @ \o o.issue,
              !.pc = IF o.write.kind = "none" THEN "wait" ELSE "done"]

\* A goroutine starts serving a request: the router passes it to
\* RateLimitMiddleware.
GoroutineArrives ==
    /\ \E g \in Goroutines, route \in ConcurrentRoutes, key \in ConcurrentKeys :
          /\ inflight[g].pc = "idle"
          /\ inflight' = [inflight EXCEPT ![g] =
                              [@ EXCEPT !.pc = "mw", !.route = route, !.apiKey = key]]
    /\ UNCHANGED <<started, outsideConcurrent>>

\* RateLimitMiddleware up to its quota check.
GoroutineEntersMiddleware ==
    /\ \E g \in Goroutines :
          /\ inflight[g].pc = "mw"
          /\ inflight' = [inflight EXCEPT ![g] =
                 IF inflight[g].apiKey = "" THEN AfterMiddleware(g, RateLimitNoKey(NoHeaders))
                 ELSE [@ EXCEPT !.pc = "auth", !.authKey = inflight[g].apiKey]]
    /\ UNCHANGED <<started, outsideConcurrent>>

\* The quota check returns and RateLimitMiddleware ends.
GoroutineLeavesMiddleware ==
    /\ \E g \in Goroutines, a \in ConcurrentAuthResponses, t \in ConcurrentTimes :
          /\ inflight[g].pc = "auth"
          /\ inflight' = [inflight EXCEPT ![g] =
                 [AfterMiddleware(g, RateLimitChecked(NoHeaders, CheckRateLimit(a, t), t))
                     EXCEPT !.authResp = a, !.now = ClockRead(t)]]
    /\ UNCHANGED <<started, outsideConcurrent>>

\* The handler decodes the body and runs up to its first proxy call.
GoroutineStartsHandler ==
    /\ \E g \in Goroutines, b \in ConcurrentBodies :
          /\ inflight[g].pc = "handler"
          /\ inflight' = [inflight EXCEPT ![g] =
                 AfterHandlerStep([@ EXCEPT !.body = b], HandlerBegin(inflight[g].route, b))]
          /\ started' = Append(started, g)
    /\ UNCHANGED outsideConcurrent

\* The pending proxy call returns and the handler runs up to its next call.
GoroutineResumesHandler ==
    /\ \E g \in Goroutines, answer \in ConcurrentBackendResponses :
          /\ inflight[g].pc = "wait"
          /\ LET l == inflight[g]
                 r == LiveResult(l.calls[Len(l.rets) + 1], answer)
             IN inflight' = [inflight EXCEPT ![g] =
                    AfterHandlerStep([l EXCEPT !.rets = Append(@, r),
                                               !.wire = Append(@, answer)],
                                     HandlerResume(l.route, DecodedRequest(g), l.rets, r))]
    /\ UNCHANGED <<started, outsideConcurrent>>

NextConcurrent ==
    \/ GoroutineArrives
    \/ GoroutineEntersMiddleware
    \/ GoroutineLeavesMiddleware
    \/ GoroutineStartsHandler
    \/ GoroutineResumesHandler

SpecConcurrent == InitConcurrent /\ [][NextConcurrent]_vars

-----------------------------------------------------------------------------
(* LoggingMiddleware run on its own (middleware/logging.go)                *)

\* The server's http.ResponseWriter: the header map the handler edits, and
\* what went to the client: status and headers once the header is written,
\* and the body.
NewServerWriter ==
    [header |-> NoHeaders, wroteHeader |-> FALSE, status |-> 0, sent |-> NoHeaders, body |-> ""]

\* http.ResponseWriter.WriteHeader: the first call sends the status and the
\* headers set so far; a later call is ignored.
ServerWriteHeader(w, statusCode) ==
    IF w.wroteHeader THEN w
    ELSE [w EXCEPT !.wroteHeader = TRUE, !.status = statusCode, !.sent = w.header]

\* http.ResponseWriter.Write: writes the header with 200 if none was written.
ServerWrite(w, data) ==
    [ServerWriteHeader(w, StatusOK) EXCEPT !.body = @ \o data]

\* Header().Set(name, value)
ServerHeaderSet(w, name, value) == [w EXCEPT !.header = SetHeader(@, name, value)]

\* The server after the handler returned: a response never written goes out as 200.
ServerFinish(w) == ServerWriteHeader(w, StatusOK)

newResponseWriter(writer) == [ResponseWriter |-> writer, statusCode |-> StatusOK]

\* Faulty variant of WriteHeader: the status is captured and not passed on.
WriteHeaderNotForwarded(rw, statusCode) == [rw EXCEPT !.statusCode = statusCode]

\* responseWriter.WriteHeader
WriteHeader(rw, statusCode) ==
    [ResponseWriter |-> ServerWriteHeader(rw.ResponseWriter, statusCode),
     statusCode |-> statusCode]

\* What a wrapped handler can do with the writer it is given.
MaxOps == 3
StatusCreated == 201
LogStatuses ==
    {StatusOK, StatusCreated, StatusBadRequest, StatusNotFound, StatusInternalServerError}
HandlerOps ==
    {[op |-> "Header.Set", name |-> "X-Custom-Header", value |-> "test-value"]}
      \cup {[op |-> "WriteHeader", status |-> st] : st \in LogStatuses}
      \cup {[op |-> "Write", data |-> d] : d \in {"OK", "x"}}
HandlerOpSeqs == UNION {[1 .. n -> HandlerOps] : n \in 0 .. MaxOps}
LogRequests == [method : {"GET", "POST"}, ops : HandlerOpSeqs]

\* switch { case statusCode >= 500: Error; case statusCode >= 400: Warn; default: Info }
LogLevel(statusCode) ==
    IF statusCode >= 500 THEN "error" ELSE IF statusCode >= 400 THEN "warn" ELSE "info"

InitLogging ==
    /\ GatewayIdle
    /\ NoValidatorRun
    /\ NoErrorWritten
    /\ NoneInFlight
    /\ NoTokenChecked
    /\ logRequest \in LogRequests
    /\ wrappedWriter = NoWriter
    /\ served = 0
    /\ logEvents = << >>

\* LoggingMiddleware up to next.ServeHTTP(wrappedWriter, request)
LoggingMiddlewareBegin ==
    /\ logEvents = << >>
    /\ wrappedWriter' = newResponseWriter(NewServerWriter)
    /\ logEvents' = <<[level |-> "info", msg |-> "Incoming request",
                       method |-> logRequest.method]>>
    /\ UNCHANGED <<logRequest, served, outsideLogging>>

NextOp == logRequest.ops[served + 1]
Serving == Len(logEvents) = 1 /\ served < Len(logRequest.ops)

\* The wrapped handler calls writer.Header().Set: the embedded ResponseWriter's method.
WrappedHeaderSet ==
    /\ Serving /\ NextOp.op = "Header.Set"
    /\ wrappedWriter' = [wrappedWriter EXCEPT
                            !.ResponseWriter = ServerHeaderSet(@, NextOp.name, NextOp.value)]
    /\ served' = served + 1
    /\ UNCHANGED <<logRequest, logEvents, outsideLogging>>

\* The wrapped handler calls writer.WriteHeader.
WrappedWriteHeader ==
    /\ Serving /\ NextOp.op = "WriteHeader"
    /\ wrappedWriter' = WriteHeader(wrappedWriter, NextOp.status)
    /\ served' = served + 1
    /\ UNCHANGED <<logRequest, logEvents, outsideLogging>>

\* The wrapped handler calls writer.Write: the embedded ResponseWriter's method.
WrappedWrite ==
    /\ Serving /\ NextOp.op = "Write"
    /\ wrappedWriter' = [wrappedWriter EXCEPT !.ResponseWriter = ServerWrite(@, NextOp.data)]
    /\ served' = served + 1
    /\ UNCHANGED <<logRequest, logEvents, outsideLogging>>

\* The wrapped handler returned: the completion is logged and the server
\* finishes the response.
LoggingMiddlewareEnd ==
    /\ Len(logEvents) = 1 /\ served = Len(logRequest.ops)
    /\ logEvents' = Append(logEvents,
                           [level |-> LogLevel(wrappedWriter.statusCode),
                            msg |-> "Request completed", method |-> logRequest.method,
                            status |-> wrappedWriter.statusCode])
    /\ wrappedWriter' = [wrappedWriter EXCEPT !.ResponseWriter = ServerFinish(@)]
    /\ UNCHANGED <<logRequest, served, outsideLogging>>

NextLogging ==
    \/ LoggingMiddlewareBegin
    \/ WrappedHeaderSet
    \/ WrappedWriteHeader
    \/ WrappedWrite
    \/ LoggingMiddlewareEnd

SpecLogging == InitLogging /\ [][NextLogging]_vars

-----------------------------------------------------------------------------
(* Token authentication (middleware/auth.go)                               *)

\* NewAuthServiceClient: http.Client{Timeout: 5 * time.Second}
AuthTimeout == 5

ErrCodeUnauthorized == "UNAUTHORIZED"
ErrCodeInvalidToken == "INVALID_TOKEN"

\* strings.HasPrefix and strings.TrimPrefix
HasPrefix(s, prefix) ==
    /\ Len(Chars(s)) >= Len(Chars(prefix))
    /\ SubSeq(Chars(s), 1, Len(Chars(prefix))) = Chars(prefix)

TrimPrefix(s, prefix) ==
    IF HasPrefix(s, prefix)
    THEN Concat(SubSeq(Chars(s), Len(Chars(prefix)) + 1, Len(Chars(s))))
    ELSE s

\* uuid.Parse: the 16 bytes of a UUID, written here as 32 lower-case
\* hexadecimal digits, from the forms xxxxxxxx-xxxx-xxxx-xxxx-xxxxxxxxxxxx,
\* urn:uuid:..., {...} and 32 bare digits; anything else is an error.
HexDigits ==
    Range(DecimalDigits) \cup {"a", "b", "c", "d", "e", "f", "A", "B", "C", "D", "E", "F"}

ParseError == [err |-> TRUE]

ParseHex(cs) ==
    IF Range(cs) \subseteq HexDigits
    THEN [err |-> FALSE, uuid |-> Concat([i \in DOMAIN cs |-> ToLowerChar(cs[i])])]
    ELSE ParseError

ParseHyphenated(cs) ==
    IF cs[9] # "-" \/ cs[14] # "-" \/ cs[19] # "-" \/ cs[24] # "-"
    THEN ParseError
    ELSE ParseHex(SubSeq(cs, 1, 8) \o SubSeq(cs, 10, 13) \o SubSeq(cs, 15, 18)
                    \o SubSeq(cs, 20, 23) \o SubSeq(cs, 25, 36))

uuidParse(s) ==
    LET cs == Chars(s)
    IN  CASE Len(cs) = 36 -> ParseHyphenated(cs)
          [] Len(cs) = 45 ->
               IF [i \in 1 .. 9 |-> ToLowerChar(cs[i])] # Chars("urn:uuid:")
               THEN ParseError
               ELSE ParseHyphenated(SubSeq(cs, 10, 45))
          [] Len(cs) = 38 -> ParseHyphenated(SubSeq(cs, 2, 38))
          [] Len(cs) = 32 -> ParseHex(cs)
          [] OTHER -> ParseError

\* The user ids a validation answer can carry.
UserIDs ==
    {"123e4567-e89b-12d3-a456-426614174000", "123E4567E89B12D3A456426614174000",
     "{123e4567-e89b-12d3-a456-426614174000}",
     "urn:uuid:123e4567-e89b-12d3-a456-426614174000",
     "", "not-a-uuid", "123e4567-e89b-12d3-a456-42661417400g",
     "123e4567_e89b_12d3_a456_426614174000"}

\* What the auth service can do with POST /api/v1/auth/validate: fail the
\* connection, never answer, or answer a status with a body that either
\* decodes as {valid, userId, email} or does not decode.
TokenAnswers ==
    {[kind |-> "transport"], [kind |-> "silent"]}
      \cup {[kind |-> "http", status |-> st, json |-> FALSE] :
               st \in {StatusOK, StatusUnauthorized, StatusInternalServerError}}
      \cup {[kind |-> "http", status |-> st, json |-> TRUE, valid |-> v, userId |-> u] :
               st \in {StatusOK, StatusUnauthorized, StatusInternalServerError},
               v \in BOOLEAN, u \in UserIDs}

\* ValidateToken: an error when the call or the decoding fails; the status of
\* the answer is not looked at.
ValidateToken(token, answer) ==
    LET response == Post(AuthTimeout, answer)
    IN  IF response.kind # "http" THEN [err |-> TRUE]
        ELSE IF ~response.json THEN [err |-> TRUE]
        ELSE [err |-> FALSE, Valid |-> response.valid, UserID |-> response.userId]

\* context.WithValue over the request's context
NoContext == [k \in {} |-> ""]

WithValue(ctx, key, val) ==
    [x \in (DOMAIN ctx) \cup {key} |-> IF x = key THEN val ELSE ctx[x]]

\* What a step of a token middleware does: call the auth service with a
\* token, write an error response, or call the wrapped handler with a context.
AuthPost(token) == [post |-> <<token>>, written |-> << >>, next |-> << >>]
AuthWrite(apiErr) == [post |-> << >>, written |-> <<WriteError(apiErr)>>, next |-> << >>]
AuthNext(ctx) == [post |-> << >>, written |-> << >>, next |-> <<ctx>>]

\* AuthMiddleware up to client.ValidateToken(tokenString)
AuthMiddlewareBegin(authHeader) ==
    IF authHeader = ""
    THEN AuthWrite(NewAPIError(ErrCodeUnauthorized, "Authorization header is required",
                               StatusUnauthorized))
    ELSE IF ~HasPrefix(authHeader, "Bearer ")
    THEN AuthWrite(NewAPIError(ErrCodeUnauthorized,
                               "Invalid authorization format. Use: Bearer <token>",
                               StatusUnauthorized))
    ELSE AuthPost(TrimPrefix(authHeader, "Bearer "))

\* Faulty variant of AuthMiddlewareResume: the user id is put into the context
\* as it came, without uuid.Parse.
AuthMiddlewareResumeUnparsed(v) ==
    IF v.err THEN AuthWrite(InternalError("Failed to validate token"))
    ELSE IF ~v.Valid
    THEN AuthWrite(NewAPIError(ErrCodeInvalidToken, "Invalid or expired access token",
                               StatusUnauthorized))
    ELSE AuthNext(WithValue(NoContext, "userID", v.UserID))

\* AuthMiddleware after client.ValidateToken returned v
AuthMiddlewareResume(v) ==
    IF v.err THEN AuthWrite(InternalError("Failed to validate token"))
    ELSE IF ~v.Valid
    THEN AuthWrite(NewAPIError(ErrCodeInvalidToken, "Invalid or expired access token",
                               StatusUnauthorized))
    ELSE LET userID == uuidParse(v.UserID)
         IN  IF userID.err THEN AuthWrite(InternalError("Invalid user ID in token"))
             ELSE AuthNext(WithValue(NoContext, "userID", userID.uuid))

\* OptionalAuthMiddleware up to client.ValidateToken(tokenString)
OptionalAuthMiddlewareBegin(authHeader) ==
    IF authHeader = "" THEN AuthNext(NoContext)
    ELSE IF ~HasPrefix(authHeader, "Bearer ") THEN AuthNext(NoContext)
    ELSE AuthPost(TrimPrefix(authHeader, "Bearer "))

\* Faulty variant of OptionalAuthMiddlewareResume: a token the auth service
\* does not accept is answered as in AuthMiddleware.
OptionalAuthMiddlewareResumeStrict(v) ==
    IF v.err THEN AuthNext(NoContext)
    ELSE IF ~v.Valid
    THEN AuthWrite(NewAPIError(ErrCodeInvalidToken, "Invalid or expired access token",
                               StatusUnauthorized))
    ELSE LET userID == uuidParse(v.UserID)
         IN  IF userID.err THEN AuthNext(NoContext)
             ELSE AuthNext(WithValue(NoContext, "userID", userID.uuid))

\* OptionalAuthMiddleware after client.ValidateToken returned v
OptionalAuthMiddlewareResume(v) ==
    IF v.err \/ ~v.Valid THEN AuthNext(NoContext)
    ELSE LET userID == uuidParse(v.UserID)
         IN  IF userID.err THEN AuthNext(NoContext)
             ELSE AuthNext(WithValue(NoContext, "userID", userID.uuid))

\* The Authorization headers a request can carry, under either middleware.
AuthHeaders == {"", "Bearer tok-1", "Bearer ", "Bearer", "bearer tok-1", "Basic abc"}

AuthRequests == [policy : {"required", "optional"}, header : AuthHeaders]

InitAuth ==
    /\ GatewayIdle
    /\ NoValidatorRun
    /\ NoErrorWritten
    /\ NoneInFlight
    /\ NothingLogged
    /\ authRequest \in AuthRequests
    /\ authPc = "idle"
    /\ authTrace = NoAuthTrace

\* The effects of one step of a middleware, after the answers it consumed.
AuthStep(answered, o) ==
    /\ authTrace' = [posted |-> authTrace.posted \o o.post,
                     answers |-> authTrace.answers \o answered,
                     written |-> authTrace.written \o o.written,
                     next |-> authTrace.next \o o.next]
    /\ authPc' = IF o.post # << >> THEN "validate" ELSE "done"

EnterAuthMiddleware ==
    /\ authRequest.policy = "required" /\ authPc = "idle"
    /\ AuthStep(<< >>, AuthMiddlewareBegin(authRequest.header))
    /\ UNCHANGED <<authRequest, outsideAuth>>

ResumeAuthMiddleware ==
    /\ authRequest.policy = "required" /\ authPc = "validate"
    /\ \E answer \in TokenAnswers :
         AuthStep(<<answer>>,
                  AuthMiddlewareResume(ValidateToken(authTrace.posted[1], answer)))
    /\ UNCHANGED <<authRequest, outsideAuth>>

EnterOptionalAuthMiddleware ==
    /\ authRequest.policy = "optional" /\ authPc = "idle"
    /\ AuthStep(<< >>, OptionalAuthMiddlewareBegin(authRequest.header))
    /\ UNCHANGED <<authRequest, outsideAuth>>

ResumeOptionalAuthMiddleware ==
    /\ authRequest.policy = "optional" /\ authPc = "validate"
    /\ \E answer \in TokenAnswers :
         AuthStep(<<answer>>,
                  OptionalAuthMiddlewareResume(ValidateToken(authTrace.posted[1], answer)))
    /\ UNCHANGED <<authRequest, outsideAuth>>

NextAuth ==
    \/ EnterAuthMiddleware
    \/ ResumeAuthMiddleware
    \/ EnterOptionalAuthMiddleware
    \/ ResumeOptionalAuthMiddleware

SpecAuth == InitAuth /\ [][NextAuth]_vars

-----------------------------------------------------------------------------
(* Properties                                                              *)

Analyze == req.route = "/api/v1/analyze"
Gated == req.gate \in {"hard", "optional"}

\* The authority's decision reached the middleware (CheckRateLimit returned
\* a result and no error).
Decided == "result" \in DOMAIN rateLimitResult
Decision == rateLimitResult.result

Failed(r) == r.err.type # "nil"

\* The decimal number a header value stands for.
Atoi(s) == CHOOSE n \in (0 - MaxTime - 2) .. (MaxTime + 2) : FormatInt(n) = s

AnalyzeOrder == <<"GetSummonerByRiotID", "GetMatchesByPUUID", "AnalyzePlayer">>

\* C1: in the analyze handler the proxy operations are invoked in the order
\* GetSummonerByRiotID, GetMatchesByPUUID, AnalyzePlayer, each at most once;
\* a call is issued only after the previous one returned without error, and
\* at most one call is outstanding at any time.
C1_AnalyzeCallsSequential ==
    Analyze =>
        /\ Len(calls) <= Len(AnalyzeOrder)
        /\ \A i \in 1 .. Len(calls) : calls[i].op = AnalyzeOrder[i]
        /\ Len(calls) - Len(rets) \in {0, 1}
        /\ \A i \in 2 .. Len(calls) : Len(rets) >= i - 1 /\ ~Failed(rets[i - 1])

C1_Witness ==
    /\ Analyze /\ pc = "done"
    /\ Len(calls) = 3 /\ Len(rets) = 3
    /\ \A i \in 1 .. 3 : ~Failed(rets[i])

\* C2: in the analyze handler, once a step has returned an error no later
\* proxy operation is invoked: the failed call is the last one of the request
\* and the handler has ended.
C2_AnalyzeStopsAtFirstError ==
    Analyze =>
        \A i \in 1 .. Len(rets) : Failed(rets[i]) => Len(calls) = i /\ pc = "done"

C2_Witness ==
    /\ Analyze /\ req.impl = "live" /\ pc = "done"
    /\ Len(rets) = 1 /\ Len(calls) = 1
    /\ Failed(rets[1]) /\ rets[1].err.apiErr.code = "PLAYER_NOT_FOUND"

\* C3: when the last proxy call of the summoner, matches or analyze handler
\* failed with an APIError, the response is the error envelope with exactly
\* that error's status, code and message.
C3_ProxyErrorPropagatedUnchanged ==
    (pc = "done" /\ Len(rets) > 0 /\ rets[Len(rets)].err.type = "APIError") =>
        LET e == rets[Len(rets)].err.apiErr
        IN /\ resp.kind = "error"
           /\ resp.status = e.status
           /\ resp.error.code = e.code
           /\ resp.error.message = e.message

C3_Witness ==
    /\ pc = "done" /\ Analyze /\ req.impl = "live"
    /\ Len(rets) = 2
    /\ rets[2].err.type = "APIError"
    /\ rets[2].err.apiErr.code = "MATCHES_NOT_FOUND"
    /\ resp.status = StatusNotFound

\* C4: step 2 of the analyze pipeline is GetMatchesByPUUID with the PUUID of
\* the summoner step 1 returned; the analyze handler never invokes
\* GetMatchesByRiotID, and the request's gameName and tagLine are no
\* arguments of step 2.
C4_AnalyzeMatchesByResolvedPUUID ==
    Analyze =>
        /\ \A i \in 1 .. Len(calls) : calls[i].op # "GetMatchesByRiotID"
        /\ Len(calls) >= 2 =>
              /\ calls[2].op = "GetMatchesByPUUID"
              /\ DOMAIN calls[2] = {"op", "region", "puuid", "count"}
              /\ calls[2].puuid = rets[1].val.puuid
              /\ calls[2].puuid \notin {body.gameName, body.tagLine}

C4_Witness ==
    /\ Analyze /\ Len(calls) >= 2
    /\ rets[1].val.puuid = "puuid-2"
    /\ calls[2].puuid = "puuid-2"

\* C5: step 2 of the analyze pipeline requests exactly 20 matches, whatever
\* the request body holds (its count field included).
C5_AnalyzeMatchesCountIs20 ==
    (Analyze /\ Len(calls) >= 2) => calls[2].count = 20

C5_Witness ==
    /\ Analyze /\ Len(calls) >= 2
    /\ body.count = 5
    /\ calls[2].count = 20

\* C6: behind RateLimitMiddleware the handler is invoked, and a proxy
\* operation can be invoked, only if the request carried an X-API-Key, the
\* authority's decision reached the middleware, and the decision has
\* limit # 0 and allowed = TRUE.
C6_HardGateAdmitsOnlyAllowed ==
    (req.gate = "hard" /\ (invoked > 0 \/ Len(calls) > 0)) =>
        /\ req.apiKey # ""
        /\ authCalls = 1
        /\ Decided
        /\ Decision.limit # 0
        /\ Decision.allowed

C6_Witness ==
    /\ req.gate = "hard" /\ invoked = 1 /\ Len(calls) > 0
    /\ Decided /\ Decision.allowed /\ Decision.limit # 0

\* C7: in both rate-limit middlewares a decision with limit = 0 is rejected
\* with InvalidAPIKey (401), whether allowed is TRUE or FALSE, and the handler
\* is not invoked.
C7_ZeroLimitIsInvalidKey ==
    (Gated /\ Decided /\ Decision.limit = 0) =>
        /\ pc = "done"
        /\ resp.kind = "error"
        /\ resp.error.code = ErrCodeInvalidAPIKey
        /\ resp.status = StatusUnauthorized
        /\ invoked = 0
        /\ Len(calls) = 0

C7_Witness ==
    /\ req.gate = "optional" /\ Decided
    /\ Decision.limit = 0 /\ Decision.allowed
    /\ resp.kind = "error" /\ resp.status = StatusUnauthorized

\* C8: in RateLimitMiddleware a decision with allowed = FALSE and limit > 0 is
\* rejected with RateLimitExceeded (429) and a Retry-After header equal to
\* reset - now when that is positive and to 1 when it is negative or zero, so
\* the Retry-After sent is always >= 1.
C8_RetryAfterAtLeastOne ==
    (req.gate = "hard" /\ Decided /\ ~Decision.allowed /\ Decision.limit > 0) =>
        /\ pc = "done"
        /\ resp.kind = "error"
        /\ resp.error.code = ErrCodeRateLimitExceeded
        /\ resp.status = StatusTooManyRequests
        /\ "Retry-After" \in DOMAIN hdrs
        /\ now.read
        /\ LET delay == Decision.reset - now.unix
           IN hdrs["Retry-After"] = FormatInt(IF delay > 0 THEN delay ELSE 1)
        /\ Atoi(hdrs["Retry-After"]) >= 1

\* What a client and the handler see of a middleware's outcome.
MiddlewareView(o) ==
    [next |-> o.next,
     hdrs |-> o.hdrs,
     status |-> IF o.written THEN o.error.status ELSE 0,
     code |-> IF o.written THEN o.error.code ELSE ""]

\* The same, read off the state once the middleware has run.
ObservedView ==
    [next |-> invoked > 0,
     hdrs |-> hdrs,
     status |-> IF invoked = 0 THEN resp.status ELSE 0,
     code |-> IF invoked = 0 THEN resp.error.code ELSE ""]

\* The other policy's outcome for the same CheckRateLimit result and clock.
OtherPolicyView(t) ==
    IF req.gate = "hard"
    THEN MiddlewareView(OptionalRateLimitChecked(NoHeaders, rateLimitResult, t))
    ELSE MiddlewareView(RateLimitChecked(NoHeaders, rateLimitResult, t))

\* C9: for a request that carries an X-API-Key, RateLimitMiddleware and
\* OptionalRateLimitMiddleware produce the same outcome for the same answer
\* of the authority and the same clock: same status and error kind, same
\* X-RateLimit-* headers, same Retry-After, same decision to invoke the
\* handler.
C9_PoliciesAgreeWithKey ==
    (Gated /\ req.apiKey # "" /\ authResp.kind # "none") =>
        \A t \in (IF now.read THEN {now.unix} ELSE Times) : ObservedView = OtherPolicyView(t)

\* C10: when the quota check fails at the transport level both middlewares
\* answer InternalError (500, "Rate limit check failed") and do not invoke the
\* handler; a request with a key is admitted only with a decision of the
\* authority.
C10_TransportFailureFailsClosed ==
    /\ (Gated /\ authResp.kind = "transport") =>
          /\ pc = "done"
          /\ resp.kind = "error"
          /\ resp.status = StatusInternalServerError
          /\ resp.error.code = "INTERNAL_ERROR"
          /\ resp.error.message = "Rate limit check failed"
          /\ invoked = 0
          /\ Len(calls) = 0
    /\ (Gated /\ req.apiKey # "" /\ invoked > 0) =>
          Decided /\ authResp.kind = "http"

C10_Witness ==
    /\ req.gate = "hard" /\ req.apiKey # ""
    /\ authResp.kind = "transport"
    /\ pc = "done" /\ resp.status = StatusInternalServerError

\* The current request's middleware applied to a CheckRateLimit result c.
GateChecked(c, t) ==
    IF req.gate = "hard" THEN RateLimitChecked(NoHeaders, c, t)
    ELSE OptionalRateLimitChecked(NoHeaders, c, t)

InvalidKeyDecision(t) == [allowed |-> FALSE, limit |-> 0, remaining |-> 0, reset |-> t]

InvalidAPIKeyResponse ==
    WriteError(NewAPIError(ErrCodeInvalidAPIKey, "Invalid or inactive API key.",
                           StatusUnauthorized))

\* C11: when the authority answers with a status other than 200, CheckRateLimit
\* returns the decision {allowed FALSE, limit 0, remaining 0, reset now} and
\* no error; the client receives InvalidAPIKey (401) with X-RateLimit-Limit
\* and X-RateLimit-Remaining "0", the handler is not invoked, and the response
\* is the one every decision with limit 0 of a healthy authority gets.
C11_NonOKStatusIsInvalidKey ==
    (Gated /\ authResp.kind = "http" /\ authResp.status # StatusOK) =>
        /\ now.read
        /\ rateLimitResult = [err |-> FALSE, result |-> InvalidKeyDecision(now.unix)]
        /\ pc = "done"
        /\ resp = InvalidAPIKeyResponse
        /\ resp.status = StatusUnauthorized
        /\ {"X-RateLimit-Limit", "X-RateLimit-Remaining"} \subseteq DOMAIN hdrs
        /\ hdrs["X-RateLimit-Limit"] = "0"
        /\ hdrs["X-RateLimit-Remaining"] = "0"
        /\ invoked = 0
        /\ Len(calls) = 0
        /\ \A d \in Decisions :
              d.limit = 0 =>
                  LET o == GateChecked([err |-> FALSE, result |-> d], now.unix)
                  IN o.written /\ ~o.next /\ WriteError(o.error) = resp

C11_Witness ==
    /\ req.gate = "optional" /\ req.apiKey # ""
    /\ authResp.kind = "http" /\ authResp.status = StatusInternalServerError
    /\ pc = "done" /\ resp.status = StatusUnauthorized
    /\ hdrs["X-RateLimit-Limit"] = "0"

\* C12: a request without an X-API-Key header never causes a call to the
\* authority; RateLimitMiddleware rejects it with MissingAPIKey (401) without
\* invoking the handler, OptionalRateLimitMiddleware invokes the handler
\* exactly once and sets no header.
C12_NoKeyNoAuthorityCall ==
    (Gated /\ req.apiKey = "") =>
        /\ authCalls = 0
        /\ authResp = NoAuthResponse
        /\ rateLimitResult = NoResult
        /\ pc # "auth"
        /\ (req.gate = "hard" /\ pc # "mw") =>
              /\ pc = "done"
              /\ resp.kind = "error"
              /\ resp.error.code = ErrCodeMissingAPIKey
              /\ resp.status = StatusUnauthorized
              /\ invoked = 0
              /\ Len(calls) = 0
        /\ (req.gate = "optional" /\ pc # "mw") =>
              /\ invoked = 1
              /\ hdrs = NoHeaders

C12_Witness ==
    /\ req.gate = "optional" /\ req.apiKey = ""
    /\ pc = "done" /\ invoked = 1 /\ Len(rets) > 0
    /\ authCalls = 0

RateLimitHeaderNames == {"X-RateLimit-Limit", "X-RateLimit-Remaining", "X-RateLimit-Reset"}

\* C13: every response sent on a route behind RateLimitMiddleware, success or
\* error, carries X-RateLimit-Limit, X-RateLimit-Remaining and
\* X-RateLimit-Reset, and every 429 response also carries Retry-After.
C13_EveryResponseCarriesRateLimitHeaders ==
    (req.route \in APIRoutes /\ req.gate = "hard" /\ pc = "done") =>
        /\ RateLimitHeaderNames \subseteq DOMAIN hdrs
        /\ resp.status = StatusTooManyRequests => "Retry-After" \in DOMAIN hdrs

\* C14: whenever the authority's decision reached the middleware, the three
\* X-RateLimit-* headers of the response equal the decision's limit,
\* remaining and reset, on the admitted branch and on both rejection
\* branches, and they stay so while the handler runs and after the response
\* (success or error envelope) is written.
C14_HeadersEqualDecision ==
    (Gated /\ Decided) =>
        /\ RateLimitHeaderNames \subseteq DOMAIN hdrs
        /\ hdrs["X-RateLimit-Limit"] = Itoa(Decision.limit)
        /\ hdrs["X-RateLimit-Remaining"] = Itoa(Decision.remaining)
        /\ hdrs["X-RateLimit-Reset"] = FormatInt(Decision.reset)
        /\ DOMAIN hdrs \subseteq RateLimitHeaderNames \cup {"Retry-After"}

C14_Witness ==
    /\ req.gate = "hard" /\ Decided /\ Decision.limit = 1 /\ Decision.reset = -1
    /\ invoked = 1 /\ pc = "done"
    /\ Len(rets) > 0 /\ resp.kind = "error"
    /\ hdrs["X-RateLimit-Reset"] = "-1"

KeyedGated == Gated /\ req.apiKey # ""

\* The clock values this request may have read.
Clock == IF now.read THEN {now.unix} ELSE Times

\* C15: each request with an API key on a gated route causes exactly one call
\* to the authority, and nothing is kept between requests: after any number
\* of keyed requests the authority was called once per request (the current
\* one still owing its call while it is before CheckRateLimit), and each
\* request's outcome is the middleware's outcome for the answer to its own
\* call.
C15_OneAuthorityCallPerKeyedRequest ==
    /\ authorityCalls = keyedRequests - (IF KeyedGated /\ pc = "mw" THEN 1 ELSE 0)
    /\ (KeyedGated /\ pc # "mw") => authCalls = 1
    /\ (KeyedGated /\ authResp.kind # "none") =>
          \A t \in Clock :
              LET checked == CheckRateLimit(authResp, t)
              IN  /\ rateLimitResult = checked
                  /\ ObservedView = MiddlewareView(GateChecked(checked, t))

C15_Witness ==
    /\ keyedRequests = 2 /\ authorityCalls = 2
    /\ KeyedGated /\ pc = "done" /\ Decided /\ invoked = 1

HealthResponse == WriteJSON([status |-> "healthy", service |-> "opgl-gateway"])

\* C16: a POST to /health passes no rate-limit middleware: it triggers no call
\* to the authority and no backend call, and it is answered with
\* {"status":"healthy","service":"opgl-gateway"} (200) with or without an
\* X-API-Key header.
C16_HealthNeverRateLimited ==
    req.route = "/health" =>
        /\ pc \in {"handler", "done"}
        /\ authCalls = 0
        /\ authResp = NoAuthResponse
        /\ hdrs = NoHeaders
        /\ Len(calls) = 0
        /\ invoked = 1
        /\ pc = "done" => resp = HealthResponse /\ resp.status = StatusOK

C16_Witness ==
    /\ req.route = "/health" /\ req.apiKey # ""
    /\ pc = "done" /\ resp = HealthResponse
    /\ authorityCalls = 0

\* The body has been read by the handler; it parsed as JSON.
BodyRead == "read" \notin DOMAIN body
BodyDecoded == BodyRead /\ body.json

\* The validator's result for the request of the route.
Validation(route, b) ==
    CASE route = "/api/v1/summoner" -> ValidateSummonerRequest(DecodeRiotIDRequest(b).val)
      [] route = "/api/v1/matches" -> ValidateMatchRequest(DecodeMatchRequest(b).val)
      [] route = "/api/v1/analyze" -> ValidateAnalyzeRequest(DecodeRiotIDRequest(b).val)

\* C17: on the summoner, matches and analyze endpoints a request that
\* violates a validator rule (region, gameName, tagLine, PUUID, count) is
\* answered with a 400 and causes no call to the data or cortex backend.
C17_ValidatorViolationIs400 ==
    (req.route \in APIRoutes /\ BodyDecoded /\ ~IsValid(Validation(req.route, body))) =>
        /\ Len(calls) = 0
        /\ pc = "done"
        /\ resp.status = StatusBadRequest

\* C18: the region passed to GetSummonerByRiotID, GetMatchesByRiotID and
\* GetMatchesByPUUID is the lowercase form of the request's region.
C18_RegionLowercasedDownstream ==
    \A i \in 1 .. Len(calls) :
        calls[i].op # "AnalyzePlayer" => calls[i].region = NormalizeRegion(body.region)

\* The required fields of the route's request, one of them empty.
MissingRequired(route, b) ==
    IF route = "/api/v1/matches" /\ b.puuid # "" THEN b.region = ""
    ELSE b.region = "" \/ b.gameName = "" \/ b.tagLine = ""

\* C19: in the three handlers a body that does not parse is answered with
\* InvalidRequestBody (400) and an empty required field (region, gameName,
\* tagLine; only region for matches with a PUUID) with MissingFields (400),
\* without a backend call; a proxy operation is invoked only after the body
\* parsed and no required field was found empty.
C19_ParseThenRequiredFields ==
    req.route \in APIRoutes =>
        /\ ~BodyRead => Len(calls) = 0
        /\ (BodyRead /\ ~body.json) =>
              /\ pc = "done"
              /\ resp = WriteError(InvalidRequestBody("Invalid JSON format"))
              /\ resp.status = StatusBadRequest
              /\ Len(calls) = 0
        /\ (BodyDecoded /\ MissingRequired(req.route, body)) =>
              /\ pc = "done"
              /\ resp.kind = "error"
              /\ resp.error.code = "MISSING_FIELDS"
              /\ resp.status = StatusBadRequest
              /\ Len(calls) = 0
        /\ (BodyDecoded /\ ~MissingRequired(req.route, body)) => Len(calls) > 0

C19_Witness ==
    /\ req.route = "/api/v1/matches" /\ BodyDecoded
    /\ body.puuid # "" /\ body.region = "" /\ body.gameName # "" /\ body.tagLine # ""
    /\ pc = "done" /\ resp.error.code = "MISSING_FIELDS"

\* The kind of a proxy result: "" for success, the code of its APIError, or
\* "other" for an error that is no APIError.
Kind(r) ==
    IF ~Failed(r) THEN ""
    ELSE IF r.err.type = "APIError" THEN r.err.apiErr.code ELSE "other"

\* The body shape the operation decodes a 200 answer into.
Decodes(op, b) ==
    IF op \in {"GetSummonerByRiotID", "AnalyzePlayer"} THEN b.shape = "object"
    ELSE b.shape = "array"

\* C20: GetSummonerByRiotID and GetMatchesByRiotID map the data service's
\* answer as follows: transport failure -> DataServiceError; 404 ->
\* PlayerNotFound with the requested name#tag; 400 -> InvalidRequestBody;
\* every other status but 200 (other 2xx included) -> DataServiceError; a 200
\* is never mapped to one of these kinds and is a success when its body
\* decodes.
C20_DataServiceOutcomeMapping ==
    req.impl = "live" =>
        \A i \in 1 .. Len(rets) :
            calls[i].op \in {"GetSummonerByRiotID", "GetMatchesByRiotID"} =>
                LET w == wire[i]
                    r == rets[i]
                IN /\ w.kind = "transport" =>
                         Kind(r) = "DATA_SERVICE_ERROR" /\ r.err.apiErr.status = StatusBadGateway
                   /\ (w.kind = "http" /\ w.status = StatusNotFound) =>
                         /\ Kind(r) = "PLAYER_NOT_FOUND"
                         /\ r.err.apiErr.status = StatusNotFound
                         /\ r.err.apiErr.message =
                               "Player not found: " \o body.gameName \o "#" \o body.tagLine
                   /\ (w.kind = "http" /\ w.status = StatusBadRequest) =>
                         Kind(r) = "INVALID_REQUEST_BODY" /\ r.err.apiErr.status = StatusBadRequest
                   /\ (w.kind = "http"
                         /\ w.status \notin {StatusOK, StatusNotFound, StatusBadRequest}) =>
                         Kind(r) = "DATA_SERVICE_ERROR" /\ r.err.apiErr.status = StatusBadGateway
                   /\ (w.kind = "http" /\ w.status = StatusOK) =>
                         /\ Kind(r) \in {"", "INTERNAL_ERROR"}
                         /\ Decodes(calls[i].op, w.body) => Kind(r) = ""

C20_Witness ==
    /\ req.impl = "live" /\ req.route = "/api/v1/matches" /\ Len(rets) = 1
    /\ calls[1].op = "GetMatchesByRiotID"
    /\ wire[1].kind = "http" /\ wire[1].status = StatusNotFound
    /\ rets[1].err.apiErr.message = "Player not found: Ann#NA1"

\* C21: GetMatchesByPUUID never returns PlayerNotFound: a 404 of the data
\* service gives MatchesNotFound, a 400 InvalidRequestBody, every other status
\* but 200 and a transport failure DataServiceError; so an analyze request
\* ends in PlayerNotFound only through a failure of step 1.
C21_MatchesByPUUIDOutcomeMapping ==
    req.impl = "live" =>
        /\ \A i \in 1 .. Len(rets) :
              calls[i].op = "GetMatchesByPUUID" =>
                  LET w == wire[i]
                      r == rets[i]
                  IN /\ Kind(r) # "PLAYER_NOT_FOUND"
                     /\ w.kind = "transport" =>
                           Kind(r) = "DATA_SERVICE_ERROR" /\ r.err.apiErr.status = StatusBadGateway
                     /\ (w.kind = "http" /\ w.status = StatusNotFound) =>
                           /\ Kind(r) = "MATCHES_NOT_FOUND"
                           /\ r.err.apiErr.status = StatusNotFound
                     /\ (w.kind = "http" /\ w.status = StatusBadRequest) =>
                           Kind(r) = "INVALID_REQUEST_BODY"
                     /\ (w.kind = "http"
                           /\ w.status \notin {StatusOK, StatusNotFound, StatusBadRequest}) =>
                           Kind(r) = "DATA_SERVICE_ERROR" /\ r.err.apiErr.status = StatusBadGateway
        /\ (Analyze /\ pc = "done" /\ resp.kind = "error"
              /\ resp.error.code = "PLAYER_NOT_FOUND") =>
              Len(rets) = 1 /\ Failed(rets[1])

C21_Witness ==
    /\ Analyze /\ req.impl = "live" /\ pc = "done" /\ Len(rets) = 2
    /\ wire[2].kind = "http" /\ wire[2].status = StatusNotFound
    /\ Kind(rets[2]) = "MATCHES_NOT_FOUND"
    /\ resp.error.message = "No matches found for this player"

\* C22: AnalyzePlayer (proxy) maps the cortex service's answer as follows: a
\* transport failure and every status but 200 and 400 (404 included) give
\* CortexServiceError, 400 gives InvalidRequestBody, a 200 is a success when
\* its body decodes; it never returns PlayerNotFound, MatchesNotFound or
\* DataServiceError.
C22_CortexOutcomeMapping ==
    req.impl = "live" =>
        \A i \in 1 .. Len(rets) :
            calls[i].op = "AnalyzePlayer" =>
                LET w == wire[i]
                    r == rets[i]
                IN /\ Kind(r) \notin {"PLAYER_NOT_FOUND", "MATCHES_NOT_FOUND",
                                      "DATA_SERVICE_ERROR"}
                   /\ w.kind = "transport" =>
                         Kind(r) = "CORTEX_SERVICE_ERROR" /\ r.err.apiErr.status = StatusBadGateway
                   /\ (w.kind = "http" /\ w.status = StatusBadRequest) =>
                         Kind(r) = "INVALID_REQUEST_BODY" /\ r.err.apiErr.status = StatusBadRequest
                   /\ (w.kind = "http" /\ w.status \notin {StatusOK, StatusBadRequest}) =>
                         Kind(r) = "CORTEX_SERVICE_ERROR" /\ r.err.apiErr.status = StatusBadGateway
                   /\ (w.kind = "http" /\ w.status = StatusOK) =>
                         /\ Kind(r) \in {"", "INTERNAL_ERROR"}
                         /\ Decodes(calls[i].op, w.body) => Kind(r) = ""

C22_Witness ==
    /\ Analyze /\ req.impl = "live" /\ pc = "done" /\ Len(rets) = 3
    /\ wire[3].kind = "http" /\ wire[3].status = StatusNotFound
    /\ Kind(rets[3]) = "CORTEX_SERVICE_ERROR"
    /\ resp.status = StatusBadGateway

\* C23: for each of the four proxy operations a 200 answer whose body does
\* not decode into the expected type yields InternalError (500): no success
\* value, no DataServiceError or CortexServiceError, no error that is not an
\* APIError.
C23_DecodeFailureIsInternalError ==
    req.impl = "live" =>
        \A i \in 1 .. Len(rets) :
            (wire[i].kind = "http" /\ wire[i].status = StatusOK
                /\ ~Decodes(calls[i].op, wire[i].body)) =>
                /\ Failed(rets[i])
                /\ "val" \notin DOMAIN rets[i]
                /\ rets[i].err.type = "APIError"
                /\ rets[i].err.apiErr.code = "INTERNAL_ERROR"
                /\ rets[i].err.apiErr.status = StatusInternalServerError

C23_Witness ==
    /\ req.impl = "live" /\ Len(rets) = 3
    /\ calls[3].op = "AnalyzePlayer"
    /\ wire[3].kind = "http" /\ wire[3].status = StatusOK /\ wire[3].body.shape = "array"
    /\ Kind(rets[3]) = "INTERNAL_ERROR"

\* C24: no backend call is retried: every finished invocation of a proxy
\* operation made one outbound request, a handler invokes each operation at
\* most once per request (at most 1 call for summoner and matches, 3 for
\* analyze), and a failed call is the request's last call, followed by the
\* error response.
C24_NoRetry ==
    req.route \in APIRoutes =>
        /\ Len(wire) = Len(rets)
        /\ Len(calls) <= (IF Analyze THEN 3 ELSE 1)
        /\ \A i, j \in 1 .. Len(calls) : i # j => calls[i].op # calls[j].op
        /\ \A i \in 1 .. Len(rets) :
              Failed(rets[i]) => Len(calls) = i /\ pc = "done" /\ resp.kind = "error"

C24_Witness ==
    /\ req.route = "/api/v1/summoner" /\ req.impl = "live" /\ pc = "done"
    /\ Len(calls) = 1 /\ Len(rets) = 1
    /\ wire[1].kind = "transport" /\ Failed(rets[1])
    /\ resp.status = StatusBadGateway

\* C25: every outbound call carries a client-side timeout, so no request
\* stays blocked in a call the peer never answers: an unanswered data or
\* cortex call ends as DataServiceError or CortexServiceError (502), an
\* unanswered quota check as InternalError (500).
C25_UnansweredCallTimesOut ==
    /\ pc # "hung"
    /\ (Gated /\ authResp.kind = "silent") =>
          /\ pc = "done"
          /\ resp.kind = "error"
          /\ resp.error.code = "INTERNAL_ERROR"
          /\ resp.status = StatusInternalServerError
    /\ \A i \in 1 .. Len(rets) :
          wire[i].kind = "silent" =>
              /\ Kind(rets[i]) \in {"DATA_SERVICE_ERROR", "CORTEX_SERVICE_ERROR"}
              /\ rets[i].err.apiErr.status = StatusBadGateway

\* C26: the matches handler selects the lookup by the presence of the PUUID
\* alone: with a non-empty puuid it calls GetMatchesByPUUID(region, puuid, _)
\* and not GetMatchesByRiotID, whatever gameName and tagLine hold; with an
\* empty puuid it calls GetMatchesByRiotID(region, gameName, tagLine, _) and
\* not GetMatchesByPUUID; a request that passes the field checks causes
\* exactly one of the two calls.
C26_MatchesLookupByPUUIDPresence ==
    (req.route = "/api/v1/matches" /\ BodyDecoded) =>
        /\ ~MissingRequired(req.route, body) => Len(calls) = 1
        /\ Len(calls) <= 1
        /\ (Len(calls) = 1 /\ body.puuid # "") =>
              /\ calls[1].op = "GetMatchesByPUUID"
              /\ DOMAIN calls[1] = {"op", "region", "puuid", "count"}
              /\ calls[1].region = body.region
              /\ calls[1].puuid = body.puuid
        /\ (Len(calls) = 1 /\ body.puuid = "") =>
              /\ calls[1].op = "GetMatchesByRiotID"
              /\ DOMAIN calls[1] = {"op", "region", "gameName", "tagLine", "count"}
              /\ calls[1].region = body.region
              /\ calls[1].gameName = body.gameName
              /\ calls[1].tagLine = body.tagLine

C26_Witness ==
    /\ req.route = "/api/v1/matches" /\ BodyDecoded
    /\ body.puuid # "" /\ body.gameName # "" /\ body.tagLine # ""
    /\ Len(calls) = 1 /\ calls[1].op = "GetMatchesByPUUID"

\* C27: the matches handler passes count 20 to the proxy when the request's
\* count is absent (zero) or negative and the request's count when it is
\* positive; the count sent downstream is always >= 1.
C27_MatchesCountDefault ==
    (req.route = "/api/v1/matches" /\ Len(calls) >= 1) =>
        /\ body.count <= 0 => calls[1].count = 20
        /\ body.count > 0 => calls[1].count = body.count
        /\ calls[1].count >= 1

C27_Witness ==
    /\ req.route = "/api/v1/matches" /\ Len(calls) = 1
    /\ body.count = -1 /\ calls[1].count = 20

\* The errors a validator reported for a field, as positions in its result.
ErrorsFor(field) == {i \in DOMAIN validationResult : validationResult[i].field = field}

\* A field value that satisfies the rules of its field.
WellFormedRegion(v) ==
    \E code \in ValidRegions : Len(v) = Len(code) /\ ToLower(v) = code
WellFormedGameName(v) == Len(v) >= 3 /\ Len(v) <= 16 /\ Range(Chars(v)) \subseteq GameNameChars
WellFormedTagLine(v) == Len(v) >= 3 /\ Len(v) <= 5 /\ Range(Chars(v)) \subseteq TagLineChars
WellFormedPUUID(v) == Len(v) = 78 /\ Range(Chars(v)) \subseteq PUUIDChars
WellFormedCount(n) == n >= 0 /\ n <= 100
WellFormed(field, q) ==
    CASE field = "region" -> WellFormedRegion(q.region)
      [] field = "gameName" -> WellFormedGameName(q.gameName)
      [] field = "tagLine" -> WellFormedTagLine(q.tagLine)
      [] field = "puuid" -> WellFormedPUUID(q.puuid)

\* The fields a validator requires of a request: region, game name and tag
\* line, the last two of a match request only when it has no PUUID.
RequiredFields(func, q) ==
    IF func = "ValidateMatchRequest" /\ q.puuid # "" THEN {"region"}
    ELSE {"region", "gameName", "tagLine"}

\* The string fields of the struct a validator is given.
StringFields(func) ==
    IF func = "ValidateMatchRequest" THEN {"region", "gameName", "tagLine", "puuid"}
    ELSE {"region", "gameName", "tagLine"}

\* C28: ValidateSummonerRequest, ValidateAnalyzeRequest and
\* ValidateMatchRequest report exactly one error for each required field that
\* is empty and no error for a field that is present and well-formed: an
\* analyze request with region, gameName and tagLine all empty gets exactly
\* three errors, and one with only region empty gets exactly one.
C28_OneErrorPerMissingField ==
    validateFunc # "" =>
        /\ \A f \in RequiredFields(validateFunc, validateInput) :
              validateInput[f] = "" => Cardinality(ErrorsFor(f)) = 1
        /\ \A f \in StringFields(validateFunc) :
              (validateInput[f] # "" /\ WellFormed(f, validateInput)) => ErrorsFor(f) = {}
        /\ (validateFunc = "ValidateMatchRequest" /\ WellFormedCount(validateInput.count)) =>
              ErrorsFor("count") = {}
        /\ validateFunc = "ValidateAnalyzeRequest" =>
              /\ (validateInput.region = "" /\ validateInput.gameName = ""
                     /\ validateInput.tagLine = "") => Len(validationResult) = 3
              /\ (validateInput.region = "" /\ WellFormedGameName(validateInput.gameName)
                     /\ WellFormedTagLine(validateInput.tagLine)) => Len(validationResult) = 1

C28_Witness ==
    /\ validateFunc = "ValidateAnalyzeRequest"
    /\ validateInput.region = "" /\ validateInput.gameName = "" /\ validateInput.tagLine = ""
    /\ Len(validationResult) = 3
    /\ {validationResult[i].field : i \in 1..3} = {"region", "gameName", "tagLine"}

\* C29: ValidateMatchRequest treats the PUUID and the game name with tag line
\* as exclusive alternatives. With a non-empty puuid it never reports a
\* gameName or tagLine error, whatever those fields hold; with an empty puuid
\* it validates gameName and tagLine and never reports a puuid error, so with
\* all three empty the errors are for gameName and tagLine only.
C29_ExclusiveAlternative ==
    validateFunc = "ValidateMatchRequest" =>
        /\ validateInput.puuid # "" =>
              ErrorsFor("gameName") = {} /\ ErrorsFor("tagLine") = {}
        /\ validateInput.puuid = "" =>
              /\ ErrorsFor("puuid") = {}
              /\ ErrorsFor("gameName") = {} <=> WellFormedGameName(validateInput.gameName)
              /\ ErrorsFor("tagLine") = {} <=> WellFormedTagLine(validateInput.tagLine)
        /\ (validateInput.puuid = "" /\ validateInput.gameName = ""
               /\ validateInput.tagLine = "") =>
              {validationResult[i].field : i \in DOMAIN validationResult}
                  \ {"region", "count"} = {"gameName", "tagLine"}

C29_Witness ==
    /\ validateFunc = "ValidateMatchRequest"
    /\ validateInput.puuid # "" /\ WellFormedPUUID(validateInput.puuid)
    /\ validateInput.gameName = "ab" /\ validateInput.tagLine = ""
    /\ WellFormedRegion(validateInput.region) /\ validateInput.region = "Na"
    /\ validateInput.count = 0
    /\ IsValid(validationResult)

\* A match request with a valid region code and a count in [0,100].
RegionAndCountValid ==
    /\ validateInput.region # "" /\ WellFormedRegion(validateInput.region)
    /\ WellFormedCount(validateInput.count)
PUUIDGiven == validateInput.puuid # "" /\ WellFormedPUUID(validateInput.puuid)
RiotIDGiven ==
    /\ validateInput.gameName # "" /\ WellFormedGameName(validateInput.gameName)
    /\ validateInput.tagLine # "" /\ WellFormedTagLine(validateInput.tagLine)

\* C30, as stated: ValidateMatchRequest returns valid for every request whose
\* region is a valid code, whose count is in [0,100], and in which either the
\* puuid is present and well-formed or gameName and tagLine are both present
\* and well-formed, a puuid supplied next to them included.
C30_ValidOnEitherAlternative ==
    (validateFunc = "ValidateMatchRequest" /\ RegionAndCountValid
       /\ (PUUIDGiven \/ RiotIDGiven)) => IsValid(validationResult)

\* C30, amended: ValidateMatchRequest returns valid for every request whose
\* region is a valid code, whose count is in [0,100], and in which either the
\* puuid is present and well-formed, whatever gameName and tagLine hold, or
\* the puuid is empty and gameName and tagLine are both present and
\* well-formed.
C30_ValidOnChosenAlternative ==
    (validateFunc = "ValidateMatchRequest" /\ RegionAndCountValid
       /\ (PUUIDGiven \/ (validateInput.puuid = "" /\ RiotIDGiven))) =>
        IsValid(validationResult)

C30_Witness ==
    /\ validateFunc = "ValidateMatchRequest" /\ RegionAndCountValid
    /\ PUUIDGiven /\ "-" \in Range(Chars(validateInput.puuid))
    /\ RiotIDGiven
    /\ validateInput.count = 100
    /\ IsValid(validationResult)

\* C31: ValidateMatchRequest reports a count error exactly when count < 0 or
\* count > 100 (so -1 and 101 are invalid, 0 and 100 are valid), and it
\* reports at most one count error.
C31_CountErrorOutsideRange ==
    validateFunc = "ValidateMatchRequest" =>
        /\ ErrorsFor("count") # {} <=> (validateInput.count < 0 \/ validateInput.count > 100)
        /\ Cardinality(ErrorsFor("count")) <= 1
        /\ validateInput.count \in {-1, 101} => ~IsValid(validationResult)
        /\ (validateInput.count \in {0, 100} /\ validateInput.region = "na"
               /\ PUUIDGiven) => IsValid(validationResult)

C31_Witness ==
    /\ validateFunc = "ValidateMatchRequest"
    /\ validateInput.count = 101
    /\ validateInput.region = "na" /\ PUUIDGiven
    /\ validationResult = <<[field |-> "count", message |-> "count cannot exceed 100"]>>

\* The fields whose rules apply to a request, in the order the validators
\* take them.
ApplicableFields(func, q) ==
    <<"region">>
    \o (IF func = "ValidateMatchRequest" /\ q.puuid # "" THEN <<"puuid">>
        ELSE <<"gameName", "tagLine">>)
    \o (IF func = "ValidateMatchRequest" THEN <<"count">> ELSE << >>)

\* A field of a request fails a rule of its field.
FailsRule(field, q) ==
    IF field = "count" THEN ~WellFormedCount(q.count) ELSE ~WellFormed(field, q)

\* The first n errors of the result as `field: message` items with `; `
\* between them.
RECURSIVE Rendered(_)
Rendered(n) ==
    IF n = 0 THEN ""
    ELSE LET item == validationResult[n].field \o ": " \o validationResult[n].message
         IN IF n = 1 THEN item ELSE Rendered(n - 1) \o "; " \o item

\* C32: each Validate*Request function runs every applicable field rule
\* whatever failed before and records at most one error per field, in the
\* order region, then puuid or gameName and tagLine, then count: the fields of
\* its errors are the applicable fields that fail a rule, in that order.
\* GetErrorMessages renders the errors as `field: message` items joined by
\* `; ` in the same order.
C32_AllRulesRunInOrder ==
    validateFunc # "" =>
        /\ [i \in DOMAIN validationResult |-> validationResult[i].field]
             = SelectSeq(ApplicableFields(validateFunc, validateInput),
                         LAMBDA f : FailsRule(f, validateInput))
        /\ \A f \in {"region", "gameName", "tagLine", "puuid", "count"} :
              Cardinality(ErrorsFor(f)) <= 1
        /\ errorMessages.called => errorMessages.text = Rendered(Len(validationResult))

C32_Witness ==
    /\ validateFunc = "ValidateSummonerRequest"
    /\ validateInput.region = "" /\ validateInput.gameName = "ab"
    /\ validateInput.tagLine = "T1"
    /\ Len(validationResult) = 3
    /\ errorMessages.called
    /\ errorMessages.text = "region: region is required; "
                             \o "gameName: gameName must be at least 3 characters; "
                             \o "tagLine: tagLine must be at least 3 characters"

\* The HTTP status bound to each kind of the taxonomy.
BoundStatus(code) ==
    CASE code \in {"INVALID_REQUEST_BODY", "MISSING_FIELDS"} -> StatusBadRequest
      [] code \in {"PLAYER_NOT_FOUND", "MATCHES_NOT_FOUND"} -> StatusNotFound
      [] code \in {"DATA_SERVICE_ERROR", "CORTEX_SERVICE_ERROR"} -> StatusBadGateway
      [] code = "INTERNAL_ERROR" -> StatusInternalServerError

\* The keys of a parsed JSON object, in order.
Keys(value) == [i \in DOMAIN value.object |-> value.object[i].key]

\* A body of the shape {"error":{"code":string,"message":string}}.
EnvelopeShaped(text) ==
    LET parsed == ParseValue(text, 1)
    IN /\ parsed.ok
       /\ "object" \in DOMAIN parsed.value
       /\ Keys(parsed.value) = <<"error">>
       /\ "object" \in DOMAIN Member(parsed.value, "error")
       /\ Keys(Member(parsed.value, "error")) = <<"code", "message">>
       /\ \A k \in {"code", "message"} :
             "string" \in DOMAIN Member(Member(parsed.value, "error"), k)

\* C33: for every kind of the taxonomy, WriteError emits the status bound to
\* the error (400 for InvalidRequestBody and MissingFields, 404 for
\* PlayerNotFound and MatchesNotFound, 502 for DataServiceError and
\* CortexServiceError, 500 for InternalError), Content-Type application/json,
\* and a body of the shape {"error":{"code","message"}} that decodes back to
\* the same code and message.
C33_ErrorEnvelopeRoundTrip ==
    /\ responseRecorder # NewRecorder =>
          /\ responseRecorder.Code = BoundStatus(apiError.code)
          /\ responseRecorder.Code = apiError.status
          /\ "Content-Type" \in DOMAIN responseRecorder.Header
          /\ responseRecorder.Header["Content-Type"] = "application/json"
          /\ EnvelopeShaped(responseRecorder.Body)
    /\ errorResponse.decoded =>
          /\ ~errorResponse.err
          /\ errorResponse.Error.Code = apiError.code
          /\ errorResponse.Error.Message = apiError.message

C33_Witness ==
    /\ apiError = DataServiceError("{\"error\":1}")
    /\ responseRecorder.Code = StatusBadGateway
    /\ errorResponse.decoded /\ ~errorResponse.err
    /\ errorResponse.Error.Code = "DATA_SERVICE_ERROR"
    /\ errorResponse.Error.Message = "{\"error\":1}"
    /\ Len(responseRecorder.Body) > Len(apiError.code) + Len(apiError.message) + 30

\* The codes of the error taxonomy the gateway can answer with.
TaxonomyCodes ==
    {"INVALID_REQUEST_BODY", "MISSING_FIELDS", "PLAYER_NOT_FOUND", "MATCHES_NOT_FOUND",
     "DATA_SERVICE_ERROR", "CORTEX_SERVICE_ERROR", "INTERNAL_ERROR",
     ErrCodeMissingAPIKey, ErrCodeInvalidAPIKey, ErrCodeRateLimitExceeded}

ResponseWritten == resp.kind # "none"

\* Once a response is written the request's handling is over and no call is
\* outstanding; a handled request has one success payload or one error
\* envelope; a proxy error that is no APIError is answered as InternalError.
OneResponseState ==
    /\ ResponseWritten => (pc = "done" /\ Len(rets) = Len(calls))
    /\ pc = "done" => resp.kind \in {"json", "error"}
    /\ resp.kind = "json" => resp.status = StatusOK
    /\ resp.kind = "error" =>
          /\ resp.error.code \in TaxonomyCodes
          /\ DOMAIN resp.error = {"code", "message"}
          /\ resp.ctype = "application/json"
    /\ (Len(rets) >= 1 /\ rets[Len(rets)].err.type = "other") =>
          /\ resp.kind = "error"
          /\ resp.status = StatusInternalServerError
          /\ resp.error = [code |-> "INTERNAL_ERROR", message |-> "An unexpected error occurred"]

\* A written response is not written again: it stays until the request is
\* finished.
OneResponseStep ==
    ResponseWritten => (resp' = resp \/ (resp' = NoResponse /\ pc' = "idle"))

\* C34: every request that reaches the rate-limit middleware or a handler
\* and is handled to its end produces exactly one response, one success
\* payload or one error envelope of a taxonomy kind; no path writes two
\* responses or continues after writing an error, and a proxy error that is
\* not an APIError is reported as InternalError (500).
C34_ExactlyOneResponse == []OneResponseState /\ [][OneResponseStep]_vars

C34_Witness ==
    /\ pc = "done" /\ Len(rets) = 2 /\ Len(calls) = 2
    /\ rets[2].err.type = "other"
    /\ resp.kind = "error" /\ resp.error.code = "INTERNAL_ERROR"

\* What RateLimitMiddleware does with a goroutine's own key, clock reading
\* and authority answer.
OwnMiddlewareOutcome(l) ==
    IF l.apiKey = "" THEN RateLimitNoKey(NoHeaders)
    ELSE RateLimitChecked(NoHeaders, CheckRateLimit(l.authResp, l.now.unix), l.now.unix)

\* The steps of a goroutine's handler on its own body and the results of its
\* own calls: step 0 up to the first call, step k after the k-th result.
OwnHandlerSteps(l) ==
    [k \in 1 .. Len(l.rets) + 1 |->
        IF k = 1 THEN HandlerBegin(l.route, l.body)
        ELSE HandlerResume(l.route, l.body, SubSeq(l.rets, 1, k - 2), l.rets[k - 1])]

\* A goroutine's authority call, backend calls, results and response follow
\* from its own request and the answers to its own calls.
OwnInputsOnly(l) ==
    /\ l.pc \in {"auth", "handler", "wait", "done"} => l.authKey = l.apiKey
    /\ l.pc \in {"handler", "wait", "done"} =>
          /\ l.hdrs = OwnMiddlewareOutcome(l).hdrs
          /\ OwnMiddlewareOutcome(l).written =>
                /\ l.pc = "done"
                /\ l.resp = WriteError(OwnMiddlewareOutcome(l).error)
                /\ l.calls = << >>
    /\ \A k \in DOMAIN l.rets : l.rets[k] = LiveResult(l.calls[k], l.wire[k])
    /\ l.body # NoBody =>
          /\ l.calls = Flatten([k \in DOMAIN OwnHandlerSteps(l) |-> OwnHandlerSteps(l)[k].issue])
          /\ l.resp = OwnHandlerSteps(l)[Len(l.rets) + 1].write

\* A step of one goroutine leaves the locals of the others alone.
OwnLocalsOnly ==
    \A g \in Goroutines :
        inflight'[g] # inflight[g] =>
            \A h \in Goroutines \ {g} : inflight'[h] = inflight[h]

\* C35: requests handled at the same time do not affect one another: under
\* every interleaving of the steps of the requests in flight, each request's
\* authority call, backend calls and response depend only on its own headers
\* and body and on the answers to its own calls, and no step reads or writes
\* state written while handling another request.
C35_RequestsAreIsolated ==
    /\ [](\A g \in Goroutines : OwnInputsOnly(inflight[g]))
    /\ [][OwnLocalsOnly]_vars

C35_Witness ==
    /\ started = <<2, 1>>
    /\ \A g \in Goroutines :
          /\ inflight[g].route = "/api/v1/analyze"
          /\ Len(inflight[g].calls) = 3
    /\ inflight[1].body.region # inflight[2].body.region
    /\ inflight[1].apiKey # inflight[2].apiKey
    /\ inflight[1].calls[2].puuid # inflight[2].calls[2].puuid
    /\ inflight[1].pc = "done" /\ inflight[2].pc = "wait"

\* What the client gets when a handler performs its first n operations on
\* the server's ResponseWriter itself.
RECURSIVE Unwrapped(_, _)
Unwrapped(ops, n) ==
    IF n = 0 THEN NewServerWriter
    ELSE LET w == Unwrapped(ops, n - 1)
             o == ops[n]
         IN CASE o.op = "Header.Set" -> ServerHeaderSet(w, o.name, o.value)
              [] o.op = "WriteHeader" -> ServerWriteHeader(w, o.status)
              [] o.op = "Write" -> ServerWrite(w, o.data)

\* The WriteHeader calls among the operations performed.
WriteHeaderCalls ==
    {i \in 1 .. served : logRequest.ops[i].op = "WriteHeader"}

\* The status passed to WriteHeader (to its last call), 200 without a call.
PassedStatus ==
    IF WriteHeaderCalls = {} THEN StatusOK
    ELSE logRequest.ops[CHOOSE i \in WriteHeaderCalls :
                           \A j \in WriteHeaderCalls : j <= i].status

\* C36: LoggingMiddleware is transparent to the client: the status, headers
\* and body the wrapped handler writes reach the client as they would
\* without the middleware, for every method and status; the status recorded
\* for logging is the one passed to WriteHeader, and 200 when the wrapped
\* handler never calls WriteHeader.
C36_LoggingIsTransparent ==
    Len(logEvents) >= 1 =>
        /\ wrappedWriter.ResponseWriter =
              (IF Len(logEvents) = 2
               THEN ServerFinish(Unwrapped(logRequest.ops, served))
               ELSE Unwrapped(logRequest.ops, served))
        /\ wrappedWriter.statusCode = PassedStatus
        /\ Len(logEvents) = 2 =>
              /\ logEvents[2].status = PassedStatus
              /\ logEvents[2].method = logRequest.method
              /\ WriteHeaderCalls = {} =>
                    logEvents[2].status = StatusOK /\ wrappedWriter.ResponseWriter.status = StatusOK

C36_Witness ==
    /\ Len(logEvents) = 2
    /\ logRequest.ops = <<[op |-> "Header.Set", name |-> "X-Custom-Header",
                           value |-> "test-value"],
                          [op |-> "WriteHeader", status |-> StatusCreated],
                          [op |-> "Write", data |-> "OK"]>>
    /\ wrappedWriter.ResponseWriter.status = StatusCreated
    /\ wrappedWriter.ResponseWriter.sent = SetHeader(NoHeaders, "X-Custom-Header", "test-value")
    /\ wrappedWriter.ResponseWriter.body = "OK"
    /\ logEvents[2].status = StatusCreated

\* The authority answered 200 with a body that is no decision.
UndecodableDecision ==
    Gated /\ authResp.kind = "http" /\ authResp.status = StatusOK /\ ~authResp.json

\* C37: when the authority answers 200 with a body that cannot be decoded as
\* a decision, both rate-limit middlewares answer InternalError (500, "Rate
\* limit check failed"), set none of the X-RateLimit-* headers and do not
\* invoke the handler: the outcome of a transport failure, not InvalidAPIKey.
C37_UndecodableDecisionFailsClosed ==
    UndecodableDecision =>
        /\ rateLimitResult = [err |-> TRUE]
        /\ pc = "done"
        /\ resp = WriteError(InternalError("Rate limit check failed"))
        /\ resp.status = StatusInternalServerError
        /\ resp.error.code = "INTERNAL_ERROR"
        /\ resp.error.code # ErrCodeInvalidAPIKey
        /\ hdrs = NoHeaders
        /\ invoked = 0
        /\ Len(calls) = 0
        /\ \A t \in Times :
              LET o == GateChecked(CheckRateLimit([kind |-> "transport"], t), t)
              IN o.written /\ ~o.next /\ o.hdrs = hdrs /\ WriteError(o.error) = resp

C37_Witness ==
    /\ UndecodableDecision /\ req.gate = "optional" /\ req.apiKey # ""
    /\ pc = "done" /\ resp.status = StatusInternalServerError
    /\ resp.error.message = "Rate limit check failed"

\* The calls of GetMatchesByPUUID the current request made.
MatchesByPUUIDCalls == {k \in DOMAIN calls : calls[k].op = "GetMatchesByPUUID"}

\* C38: in the analyze pipeline, whenever step 1 returns a Summoner without
\* error, step 2 is issued exactly once, with that Summoner's identifier and
\* the region exactly as it appeared in the request, even when the identifier
\* is the empty string: the handler does not check the resolved Summoner.
C38_AnalyzeStep2UsesSummonerAsIs ==
    (Analyze /\ Len(rets) >= 1 /\ rets[1].err.type = "nil") =>
        /\ Len(calls) >= 2
        /\ MatchesByPUUIDCalls = {2}
        /\ calls[2].puuid = rets[1].val.puuid
        /\ calls[2].region = body.region
        /\ calls[2] = MatchesByPUUIDCall(body.region, rets[1].val.puuid, 20)

C38_Witness ==
    /\ Analyze /\ Len(rets) = 1 /\ rets[1].err.type = "nil"
    /\ rets[1].val.puuid = ""
    /\ body.region = "NA"
    /\ Len(calls) = 2 /\ calls[2].puuid = "" /\ calls[2].region = "NA"

\* The sample headers that start with "Bearer ", the sample user ids that are
\* UUIDs (all four write the same UUID), and what an answer of the auth
\* service amounts to.
BearerHeaders == {"Bearer tok-1", "Bearer "}
SampleUUIDs ==
    {"123e4567-e89b-12d3-a456-426614174000", "123E4567E89B12D3A456426614174000",
     "{123e4567-e89b-12d3-a456-426614174000}",
     "urn:uuid:123e4567-e89b-12d3-a456-426614174000"}
SampleUUID == "123e4567e89b12d3a456426614174000"
ValidationCallFailed(a) == a.kind # "http" \/ ~a.json
ReportedValid(a) == a.kind = "http" /\ a.json /\ a.valid
ValidAs(a) == IF ReportedValid(a) /\ a.userId \in SampleUUIDs THEN <<SampleUUID>> ELSE << >>

\* Exactly one error response, of the given code and status, and no handler call.
OnlyError(code, status) ==
    /\ authTrace.next = << >>
    /\ Len(authTrace.written) = 1
    /\ authTrace.written[1].kind = "error"
    /\ authTrace.written[1].status = status
    /\ authTrace.written[1].error.code = code

\* C39: AuthMiddleware calls the wrapped handler, once and with the parsed
\* user id in the context, only when the header is present, starts with
\* "Bearer ", the auth service reports the token valid and the user id parses
\* as a UUID; otherwise it writes exactly one error and calls no handler:
\* Unauthorized (401) for a missing or non-Bearer header, InternalError (500)
\* for a failed validation call, InvalidToken (401) for an invalid token,
\* InternalError (500) for an unparseable user id.
C39_AuthMiddlewareAdmitsOnlyValidTokens ==
    authRequest.policy = "required" =>
      /\ authPc # "done" => authTrace.written = << >> /\ authTrace.next = << >>
      /\ authPc = "done" =>
           IF authRequest.header \notin BearerHeaders
           THEN authTrace.posted = << >> /\ OnlyError("UNAUTHORIZED", 401)
           ELSE /\ Len(authTrace.posted) = 1 /\ Len(authTrace.answers) = 1
                /\ LET a == authTrace.answers[1]
                   IN  IF ValidationCallFailed(a) THEN OnlyError("INTERNAL_ERROR", 500)
                       ELSE IF ~a.valid THEN OnlyError("INVALID_TOKEN", 401)
                       ELSE IF a.userId \notin SampleUUIDs
                       THEN OnlyError("INTERNAL_ERROR", 500)
                       ELSE /\ authTrace.written = << >>
                            /\ authTrace.next = <<[userID |-> SampleUUID]>>

\* AuthMiddleware called the wrapped handler for a token reported valid in an
\* answer of status 401 whose user id is written in upper case without hyphens.
C39_Witness ==
    /\ authRequest = [policy |-> "required", header |-> "Bearer tok-1"]
    /\ authPc = "done"
    /\ authTrace.posted = <<"tok-1">>
    /\ authTrace.answers[1].kind = "http" /\ authTrace.answers[1].json
    /\ authTrace.answers[1].status = 401
    /\ authTrace.answers[1].userId = "123E4567E89B12D3A456426614174000"
    /\ Len(authTrace.next) = 1

\* C40: OptionalAuthMiddleware never writes an error and calls the auth
\* service at most once; when it is done it has called the wrapped handler
\* exactly once, with the user id in the context exactly when the token was
\* reported valid and the id parses as a UUID.
C40_OptionalAuthNeverRejects ==
    authRequest.policy = "optional" =>
      /\ authTrace.written = << >>
      /\ Len(authTrace.posted) <= 1
      /\ authPc # "done" => authTrace.next = << >>
      /\ authPc = "done" =>
           /\ Len(authTrace.next) = 1
           /\ LET admitted == IF authTrace.answers = << >> THEN << >>
                              ELSE ValidAs(authTrace.answers[1])
              IN  authTrace.next[1] =
                    (IF admitted = << >> THEN NoContext ELSE [userID |-> admitted[1]])

\* OptionalAuthMiddleware called the wrapped handler without a user id after
\* the auth service reported the token invalid.
C40_Witness ==
    /\ authRequest = [policy |-> "optional", header |-> "Bearer tok-1"]
    /\ authPc = "done"
    /\ Len(authTrace.answers) = 1
    /\ authTrace.answers[1].kind = "http" /\ authTrace.answers[1].json
    /\ ~authTrace.answers[1].valid
    /\ authTrace.next = <<NoContext>>

====
